---- MODULE Spec2Model ----
(***************************************************************************)
(* Model of the authenticated session client of homebridge-ies-heatpump    *)
(* (src/src/api/client.ts, class IESClient, lines 1-895).                  *)
(*                                                                         *)
(* One step of the model is the code a caller runs between two awaits:     *)
(* it starts with the answer to the request the caller was waiting for     *)
(* (or with the resumption of a resolved await) and ends when the next     *)
(* request has been sent or the operation has settled.  The server is the  *)
(* environment: every answer is drawn from a small set of answers.         *)
(***************************************************************************)
EXTENDS Integers, Sequences, FiniteSets, TLC

\* ------------------------------------------------------------ bounds
\* Operations issued in one behaviour.
MaxCalls == 2
\* Clock ticks in one behaviour.
MaxTicks == 1
\* Settings forms built in one behaviour of SpecForm.
MaxSaves == 2
\* mergeCookies calls in one behaviour of SpecCookies.
MaxMerges == 2
\* Timer firings, user events and direct setter calls in one behaviour of
\* SpecPlatform.
MaxEvents == 3

\* The callers that may have an operation in flight at the same time.  They
\* are interchangeable: an operation is issued by the first idle caller.
ProcSeq == <<"a", "b">>
Procs == {ProcSeq[i] : i \in DOMAIN ProcSeq}
Before(q, p) == \E i, j \in DOMAIN ProcSeq : i < j /\ ProcSeq[i] = q /\ ProcSeq[j] = p

\* ------------------------------------------------------------ constants
TOKEN_REFRESH_BUFFER_MS == 60000
\* The clock advances in steps of half the refresh buffer.
TickMs == TOKEN_REFRESH_BUFFER_MS \div 2
\* completeOidcFlow: "Default to 1 hour if we can't parse".
DefaultLifetimeMs == 3600 * 1000

\* ------------------------------------------------------------ values
\* A string | undefined field holding a token (held = FALSE: undefined).
\* pk/exp describe the payload (middle segment) of an id_token: pk = "exp"
\* when it decodes to JSON with an exp claim of exp seconds, "noexp" when it
\* decodes to JSON without exp, "bad" when it does not decode.
NoToken == [held |-> FALSE, pk |-> "bad", exp |-> 0]
IdToken(pk, exp) == [held |-> TRUE, pk |-> pk, exp |-> exp]
Held(tok) == tok.held

\* A Date | undefined field.
NoDate == [k |-> "undefined", t |-> 0]
DateOf(ms) == [k |-> "date", t |-> ms]

\* A cookie string "n1=v1; n2=v2" is the sequence of its name/value pairs;
\* "" is the empty sequence.  A string | undefined field is [def, jar].
NoCookies == [def |-> FALSE, jar |-> <<>>]
CookieString(jar) == [def |-> TRUE, jar |-> jar]
\* JavaScript's !s for a string | undefined field.
Falsy(c) == ~c.def \/ c.jar = <<>>

\* A Set-Cookie header value "n=v; attrs".
SetCookie(n, v) == [n |-> n, v |-> v, attrs |-> "Path=/; HttpOnly"]

\* The settled outcome of an operation.  statusCode 0 stands for undefined.
NoResult == [st |-> "none", msg |-> "", statusCode |-> 0, isAuthError |-> FALSE]
Resolved == [st |-> "ok", msg |-> "", statusCode |-> 0, isAuthError |-> FALSE]
Rejected(msg, statusCode, isAuthError) ==
    [st |-> "err", msg |-> msg, statusCode |-> statusCode, isAuthError |-> isAuthError]
\* An Error that is not an IESApiError (fetch rejecting, AbortError).
Thrown(name) == [st |-> "throw", msg |-> name, statusCode |-> 0, isAuthError |-> FALSE]

\* ------------------------------------------------------------ cookies
\* parseCookies: the first ';'-segment of every Set-Cookie value, joined.
parseCookies(setCookies) ==
    [i \in DOMAIN setCookies |-> [n |-> setCookies[i].n, v |-> setCookies[i].v]]

\* Map.set on an insertion-ordered map kept as a sequence of pairs.
MapSet(m, c) ==
    IF \E i \in DOMAIN m : m[i].n = c.n
    THEN [i \in DOMAIN m |-> IF m[i].n = c.n THEN c ELSE m[i]]
    ELSE Append(m, c)

RECURSIVE MapSetAll(_, _)
MapSetAll(m, cs) ==
    IF cs = <<>> THEN m
    ELSE MapSetAll(IF Head(cs).n = "" THEN m ELSE MapSet(m, Head(cs)), Tail(cs))

\* mergeCookies: existing pairs first, then the new Set-Cookie pairs, last
\* value wins per name, pairs with an empty name dropped.
mergeCookies(existingCookies, newSetCookies) ==
    MapSetAll(MapSetAll(<<>>, existingCookies), parseCookies(newSetCookies))

\* ------------------------------------------------------------ state
VARIABLES
    accessToken,      \* this.accessToken
    refreshToken,     \* this.refreshToken
    tokenExpiresAt,   \* this.tokenExpiresAt
    sessionCookies,   \* this.sessionCookies
    now,              \* Date.now()
    proc,             \* per caller: position, frame, locals, outcome, history
    calls,            \* operations issued so far
    solo,             \* TRUE: callers issue one operation at a time
    overlapW,         \* history: two setter calls have overlapped
    setting,          \* fieldName and value of the last postSetting call
    formData,         \* the form that call built, as name/value pairs
    saves,            \* forms built so far
    monitoringData,   \* the JSON body the monitoring endpoint answers with
    settingsData,     \* the JSON body the settings endpoint answers with
    monitoring,       \* fetchReadings: the map fetchMonitoring() returned
    settings,         \* fetchReadings: the map fetchSettings() returned
    combined,         \* fetchReadings: the map it returns
    fetched,          \* which of the three maps have been computed
    readingsPromise,  \* the promise a fetchReadings() call returned
    existingSetCookies, \* the Set-Cookie headers existingCookies was parsed from
    existingCookies,  \* mergeCookies: its first argument, as text
    newSetCookies,    \* mergeCookies: its second argument
    mergedCookies,    \* mergeCookies: the text it returned
    merges,           \* mergeCookies calls so far
    config,           \* platform: this.config (deviceId, cookies, pollingInterval)
    launched,         \* platform: didFinishLaunching has been delivered
    apiClient,        \* platform: this.apiClient is set
    pollingTimer,     \* platform: this.pollingTimer
    currentSeasonMode, \* platform: this.currentSeasonMode
    On,               \* the On characteristic of the three season-mode switches
    StatusFault,      \* the StatusFault characteristic of every accessory
    tasks,            \* platform: client calls awaited by pollApi() or a setter
    reverts,          \* the 100 ms revert timers armed, by switch
    events,           \* timer firings, user events and setter calls so far
    thrown            \* history: a setter has rejected to its caller

vars == <<accessToken, refreshToken, tokenExpiresAt, sessionCookies, now,
          proc, calls, solo, overlapW, setting, formData, saves,
          monitoringData, settingsData, monitoring, settings, combined, fetched,
          readingsPromise,
          existingSetCookies, existingCookies, newSetCookies, mergedCookies, merges,
          config, launched, apiClient, pollingTimer, currentSeasonMode, On,
          StatusFault, tasks, reverts, events, thrown>>

\* No form has been built.
NoSetting == [fieldName |-> "", value |-> ""]
NoForm == <<>>

\* The platform has not been constructed.
Undefined == [def |-> FALSE, n |-> 0]
Number(n) == [def |-> TRUE, n |-> n]
NoTimer == [set |-> FALSE, intervalSeconds |-> 0, delay |-> 0]
\* discoverSeasonMode: the mode values of the three switches.
SeasonModes == {0, 1, 2}
\* The accessory handlers: the temperature sensors by paramId, the hot water
\* thermostat, the curve offset, the room setpoint and the three switches.
Sensors == {"_USER.Input.Tamb"}
Switch(m) ==
    CASE m = 0 -> "Summer Mode" [] m = 1 -> "Winter Mode" [] m = 2 -> "Auto Mode"
Accessories ==
    Sensors \cup {"hotWaterThermostat", "curveOffsetAccessory", "heatingRoomSetpointAccessory"}
            \cup {Switch(m) : m \in SeasonModes}
NoPlatform ==
    /\ config = [deviceId |-> FALSE, cookies |-> FALSE, pollingInterval |-> Undefined]
    /\ launched = FALSE /\ apiClient = FALSE /\ pollingTimer = NoTimer
    /\ currentSeasonMode = 1
    /\ On = [m \in SeasonModes |-> FALSE]
    /\ StatusFault = [acc \in Accessories |-> "NO_FAULT"]
    /\ tasks = <<>> /\ reverts = <<>> /\ events = 0
    /\ thrown = FALSE

\* No cookie text has been merged.
NoJar ==
    /\ existingSetCookies = <<>> /\ existingCookies = <<>> /\ newSetCookies = <<>>
    /\ mergedCookies = <<>> /\ merges = 0

\* No body has been received and no reading map computed.
NoData == [hasGroups |-> FALSE, groups |-> <<>>]
\* fetchReadings() has not been called.  st: "none", "pending", "ok", "err";
\* e: the error it rejected with; from: the sub-fetches whose maps are in the
\* value it resolved with; seen: the sub-fetches whose settlement
\* Promise.all has reacted to.
NoPromise == [st |-> "none", e |-> NoResult, from |-> {}, seen |-> {}]

NoReadings ==
    /\ monitoringData = NoData /\ settingsData = NoData
    /\ monitoring = <<>> /\ settings = <<>> /\ combined = <<>> /\ fetched = {}
    /\ readingsPromise = NoPromise

\* The state parameter of the bootstrap redirect (none captured yet), the
\* completion POST (none in flight) and the bootstrap answer (none received).
NoState == -1
NoRequest == [sent |-> FALSE, Cookie |-> <<>>, state |-> NoState]
NoBoot == [cookies |-> <<>>, state |-> NoState]

\* A caller with no operation in flight.
\*   pc      where the caller waits: "boot", "login", "cred", "cb", "oidc" (the
\*           answer to a handshake request), "refresh" (the answer to the
\*           refresh-token POST), "data", "csrf", "post" (the
\*           answer to a data GET, a configurations-page GET, a settings
\*           POST), "csrf_ret" (the body of the configurations page, after
\*           which fetchCsrfToken() returns), "done"
\*   phase   the function whose frame is running: "read" (fetchFromEndpoint),
\*           "csrf" (fetchCsrfToken), "post" (postSetting), "auth"
\*   retry   retryOnAuth of the fetchFromEndpoint / fetchCsrfToken frame
\*   pretry  retryOnAuth of the postSetting frame this setter runs (or will)
\*   timer   an AbortController timeout is armed for the request in flight
\*   inTry   the authenticate() running was called inside the try block of
\*           refreshTokens()
\*   state   the state parameter captured from the bootstrap redirect
\*   oidc    the completion POST in flight: its Cookie header and state field
\*   boot    history: what the bootstrap of the running handshake answered
\* The fields from honest on are history: the client never reads them.
\*   honest  the server answers this operation as one that accepts a login
\*           and rejects nothing but credentials older than the operation
\*   nEa, nHs, nHsOk   ensureAuthenticated() calls, handshakes started and
\*           handshakes completed by this operation
\*   nReq    data GETs (read) or settings POSTs (setter) sent
\*   nCsrf   configurations-page GETs sent by the current fetchCsrfToken()
\*           call of the setter and its retry
\*   nGet    configurations-page GETs sent by the setter in all
\*   fails, mfails   auth failures detected on any request, on data GETs/POSTs
\*   reauth  handshakes started by a retry after a data GET / POST auth failure
\*   retFar  the stored expiry was more than the buffer ahead when the last
\*           ensureAuthenticated() resolved
\*   nRfAuth authenticate() calls made by the last refreshTokens() call that
\*           sent its refresh-token POST
Idle ==
    [pc |-> "idle", op |-> "none", phase |-> "none",
     retry |-> FALSE, pretry |-> FALSE, timer |-> FALSE, inTry |-> FALSE,
     appCookies |-> <<>>, idpCookies |-> <<>>, returnUrl |-> FALSE,
     state |-> NoState, oidc |-> NoRequest,
     idToken |-> NoToken, res |-> NoResult, boot |-> NoBoot,
     honest |-> FALSE, nEa |-> 0, nHs |-> 0, nHsOk |-> 0, nReq |-> 0, nCsrf |-> 0,
     nGet |-> 0,
     fails |-> 0, mfails |-> 0, reauth |-> 0, retFar |-> FALSE, nRfAuth |-> 0]

InFlight(p) == proc[p].pc \notin {"idle", "done"}

\* The operation settles with result e; its locals go out of scope.
Settle(r, e) ==
    [r EXCEPT !.pc = "done", !.res = e, !.timer = FALSE, !.retFar = FALSE,
              !.inTry = FALSE,
              !.appCookies = <<>>, !.idpCookies = <<>>, !.returnUrl = FALSE,
              !.state = NoState, !.oidc = NoRequest, !.boot = NoBoot,
              !.idToken = NoToken]

\* Mutant: the catch rethrows whatever it caught.
authenticateCatchRethrow(e) == e

\* authenticate()'s catch: an IESApiError is rethrown, any other Error is
\* wrapped with isAuthError = true.
authenticateCatch(e) ==
    IF e.st = "err" THEN e
    ELSE Rejected("Authentication failed: " \o e.msg, 0, TRUE)

\* authenticate() up to its first await: getLoginPage sends the bootstrap GET,
\* with no AbortController.
authenticate(r) ==
    [r EXCEPT !.pc = "boot", !.timer = FALSE, !.nHs = @ + 1, !.retFar = FALSE]

\* authenticate() throws e.  Thrown inside the try block of refreshTokens()
\* (the fallback after a non-success refresh response), the error is caught
\* by that function's catch, which calls authenticate() again.
authenticateFail(r, e) ==
    IF r.inTry
    THEN authenticate([r EXCEPT !.inTry = FALSE, !.nRfAuth = @ + 1,
                                !.appCookies = <<>>, !.idpCookies = <<>>,
                                !.state = NoState, !.oidc = NoRequest, !.boot = NoBoot,
                                !.returnUrl = FALSE, !.idToken = NoToken])
    ELSE Settle(r, authenticateCatch(e))

\* Mutant: the refresh-token POST is sent whether or not a token is held.
refreshTokensSend(r, rt) == [r EXCEPT !.pc = "refresh", !.timer = TRUE, !.nRfAuth = 0]

\* refreshTokens() up to its first await.
refreshTokens(r, rt) ==
    IF ~Held(rt) THEN authenticate(r)
    ELSE [r EXCEPT !.pc = "refresh", !.timer = TRUE, !.nRfAuth = 0]

\* The expiry is a valid instant more than the refresh buffer after t.
Far(exp, t) == exp.k = "date" /\ exp.t - t > TOKEN_REFRESH_BUFFER_MS

\* ensureAuthenticated(): "First time - need to authenticate".
NeedAuthenticate(tok, exp) == ~Held(tok) \/ exp.k = "undefined"
\* Mutants: the comparison turned round; the refresh buffer left out.
NeedRefreshFlipped(exp, t) == exp.k = "date" /\ t <= exp.t - TOKEN_REFRESH_BUFFER_MS
NeedRefreshNoBuffer(exp, t) == exp.k = "date" /\ t >= exp.t

\* "Check if token is expired or about to expire": now >= expiresAt - buffer.
NeedRefresh(exp, t) == exp.k = "date" /\ t >= exp.t - TOKEN_REFRESH_BUFFER_MS

\* fetchFromEndpoint after ensureAuthenticated() resolved: getAuthHeaders(),
\* then the data GET.
fetchFromEndpointSend(r, tok) ==
    IF ~Held(tok) THEN Settle(r, Rejected("Not authenticated", 0, TRUE))
    ELSE [r EXCEPT !.pc = "data", !.timer = TRUE, !.nReq = @ + 1]

\* fetchCsrfToken after ensureAuthenticated() resolved: the cookie check,
\* then the configurations-page GET.
fetchCsrfTokenSend(r, cookies) ==
    IF Falsy(cookies)
    THEN Settle(r, Rejected("No session cookies available for CSRF fetch", 0, TRUE))
    ELSE [r EXCEPT !.pc = "csrf", !.timer = TRUE, !.nCsrf = @ + 1, !.nGet = @ + 1]

\* postSetting after ensureAuthenticated() resolved: the cookie check, then
\* the settings-save POST.
postSettingSend(r, cookies) ==
    IF Falsy(cookies)
    THEN Settle(r, Rejected("No session cookies available for settings update", 0, TRUE))
    ELSE [r EXCEPT !.pc = "post", !.timer = TRUE, !.nReq = @ + 1]

\* The frame that awaited ensureAuthenticated() resumes as soon as it
\* resolves: the resumption is a microtask, which runs before the answer to
\* any request of another caller is delivered.  The public authenticate()
\* has nothing left to do.
Proceed(r, tok, cookies) ==
    CASE r.phase = "read" -> fetchFromEndpointSend(r, tok)
      [] r.phase = "csrf" -> fetchCsrfTokenSend(r, cookies)
      [] r.phase = "post" -> postSettingSend(r, cookies)
      [] r.phase = "auth" -> Settle(r, Resolved)

\* ensureAuthenticated() called by the frame of caller record r on session
\* fields tok, exp, rt, cookies at time t: up to the first request sent, by
\* the handshake or, when no handshake is needed, by the frame itself.
ensureAuthenticated(r, tok, exp, rt, cookies, t) ==
    LET r1 == [r EXCEPT !.nEa = @ + 1]
    IN  IF NeedAuthenticate(tok, exp) THEN authenticate(r1)
        ELSE IF NeedRefresh(exp, t) THEN refreshTokens(r1, rt)
        ELSE Proceed([r1 EXCEPT !.retFar = Far(exp, t)], tok, cookies)

Init ==
    /\ accessToken = NoToken
    /\ refreshToken = NoToken
    /\ tokenExpiresAt = NoDate
    /\ sessionCookies = NoCookies
    /\ now = 0
    /\ proc = [p \in Procs |-> Idle]
    /\ calls = 0
    /\ solo = FALSE
    /\ overlapW = FALSE
    /\ setting = NoSetting /\ formData = NoForm /\ saves = 0
    /\ NoReadings
    /\ NoJar
    /\ NoPlatform

\* ------------------------------------------------------------ login handshake
\* What the server may answer to each request of the handshake.  "throw" is
\* fetch rejecting (network down); "abort" is the AbortController firing.
AppCookieChoices ==
    {<<>>, <<SetCookie("corr", 0)>>, <<SetCookie("corr", 0), SetCookie("sid", 1)>>}

\* The state parameter the application puts in its redirect: a fresh value
\* for every bootstrap, here one per caller.
StateOf(p) == CHOOSE i \in DOMAIN ProcSeq : ProcSeq[i] = p
States == {StateOf(p) : p \in Procs}

BootAnswers ==
    {[k |-> "throw", cookies |-> <<>>, state |-> NoState],
     [k |-> "noloc", cookies |-> <<>>, state |-> NoState]}
    \cup {[k |-> "redirect", cookies |-> c, state |-> st] : c \in AppCookieChoices, st \in States}

LoginAnswers ==
    {[k |-> "throw", csrf |-> FALSE, returnUrl |-> FALSE, cookies |-> <<>>],
     [k |-> "abort", csrf |-> FALSE, returnUrl |-> FALSE, cookies |-> <<>>],
     [k |-> "page", csrf |-> TRUE, returnUrl |-> TRUE, cookies |-> <<SetCookie("idsrv", 0)>>],
     [k |-> "page", csrf |-> FALSE, returnUrl |-> TRUE, cookies |-> <<SetCookie("idsrv", 0)>>],
     [k |-> "page", csrf |-> TRUE, returnUrl |-> FALSE, cookies |-> <<SetCookie("idsrv", 0)>>],
     [k |-> "page", csrf |-> TRUE, returnUrl |-> TRUE, cookies |-> <<>>]}

CredAnswers ==
    {[k |-> "throw", status |-> 0, marker |-> FALSE],
     [k |-> "abort", status |-> 0, marker |-> FALSE],
     [k |-> "resp", status |-> 200, marker |-> TRUE],
     [k |-> "resp", status |-> 200, marker |-> FALSE],
     [k |-> "resp", status |-> 500, marker |-> FALSE],
     [k |-> "resp", status |-> 302, marker |-> FALSE]}

\* exp claims the identity provider may put in a token issued at time t.
ExpChoices(t) == {t \div 1000, (t + 3 * TickMs) \div 1000}

CallbackAnswers(t) ==
    {[k |-> "throw", code |-> FALSE, tok |-> NoToken],
     [k |-> "abort", code |-> FALSE, tok |-> NoToken],
     [k |-> "page", code |-> FALSE, tok |-> IdToken("bad", 0)],
     [k |-> "page", code |-> TRUE, tok |-> NoToken],
     [k |-> "page", code |-> TRUE, tok |-> IdToken("bad", 0)],
     [k |-> "page", code |-> TRUE, tok |-> IdToken("noexp", 0)]}
    \cup {[k |-> "page", code |-> TRUE, tok |-> IdToken("exp", e)] : e \in ExpChoices(t)}

OidcAnswers ==
    {[k |-> "throw", status |-> 0, cookies |-> <<>>],
     [k |-> "abort", status |-> 0, cookies |-> <<>>],
     [k |-> "resp", status |-> 200, cookies |-> <<SetCookie("sid", 0)>>],
     [k |-> "resp", status |-> 302, cookies |-> <<>>],
     [k |-> "resp", status |-> 302, cookies |-> <<SetCookie("sid", 0)>>],
     [k |-> "resp", status |-> 302, cookies |-> <<SetCookie("sid", 2), SetCookie("sid", 0)>>]}

\* The answer can be delivered: an abort needs an armed AbortController.
Deliverable(r, a) == a.k = "abort" => r.timer

\* With overlapping callers the answers are drawn from one representative per
\* outcome the session can tell apart; a caller running alone gets them all.
BootCore(a) == a.k = "throw" \/ (a.k = "redirect" /\ a.cookies = <<SetCookie("corr", 0)>>)
LoginCore(a) == a.k = "page" /\ a.csrf /\ a.returnUrl /\ a.cookies # <<>>
CredCore(a) == a.k = "resp" /\ (a.status = 302 \/ a.marker)
CallbackCore(a) == a.k = "page" /\ a.code /\ Held(a.tok) /\ a.tok.pk = "exp" /\ a.tok.exp * 1000 > now
OidcCore(a) == a.k = "resp" /\ a.status = 302 /\ a.cookies = <<SetCookie("sid", 0)>>
DataCore(a) == a.k \in {"throw", "resp"} /\ a.status # 403
CsrfCore(a) == a.k = "login" \/ (a.k = "resp" /\ a.status = 200 /\ a.token)
PostCore(a) == a.k = "login" \/ (a.k = "resp" /\ a.status \in {302, 500})

\* The Error a rejected fetch surfaces as.
FetchError(a) == IF a.k = "abort" THEN Thrown("AbortError") ELSE Thrown("fetch failed")

\* getLoginPage, first half: the bootstrap answer arrives; on a redirect the
\* login-page GET is sent with an AbortController armed.
getLoginPageBoot(r, a) ==
    IF a.k = "throw" THEN authenticateFail(r, (FetchError(a)))
    ELSE IF a.k = "noloc"
    THEN authenticateFail(r, (Rejected("Main app did not redirect to auth server", 0, FALSE)))
    ELSE [r EXCEPT !.pc = "login", !.timer = TRUE, !.appCookies = parseCookies(a.cookies),
                   !.state = a.state, !.boot = [cookies |-> a.cookies, state |-> a.state]]

\* getLoginPage, second half, then submitLogin up to its fetch.
getLoginPage(r, a) ==
    IF a.k \in {"throw", "abort"} THEN authenticateFail(r, (FetchError(a)))
    ELSE IF ~a.csrf
    THEN authenticateFail(r, (Rejected("Failed to extract CSRF token from login page", 0, FALSE)))
    ELSE IF parseCookies(a.cookies) = <<>>
    THEN authenticateFail(r, (Rejected("Failed to get session cookies from login page", 0, FALSE)))
    ELSE [r EXCEPT !.pc = "cred", !.timer = TRUE,
                   !.idpCookies = parseCookies(a.cookies), !.returnUrl = a.returnUrl]

\* submitLogin after its fetch, then getAuthorizationCode up to its fetch.
submitLogin(r, a) ==
    IF a.k \in {"throw", "abort"} THEN authenticateFail(r, (FetchError(a)))
    ELSE IF a.status = 200 /\ a.marker
    THEN authenticateFail(r, (Rejected("Invalid username or password", 401, TRUE)))
    ELSE IF a.status # 302
    THEN authenticateFail(r, (Rejected("Login failed with status", a.status, TRUE)))
    ELSE [r EXCEPT !.pc = "cb", !.timer = TRUE,
                   !.idpCookies = mergeCookies(r.idpCookies, <<SetCookie("auth", 0)>>)]

\* Mutant: the completion POST carries the identity provider's cookies.
completeOidcFlowRequestIdp(r) ==
    [sent |-> TRUE, Cookie |-> r.idpCookies, state |-> r.state]

\* The completion POST: Cookie: appCookies, form field state.
completeOidcFlowRequest(r) ==
    [sent |-> TRUE, Cookie |-> r.appCookies, state |-> r.state]

\* getAuthorizationCode after its fetch, then completeOidcFlow up to its fetch.
getAuthorizationCode(r, a) ==
    IF a.k \in {"throw", "abort"} THEN authenticateFail(r, (FetchError(a)))
    ELSE IF ~a.code
    THEN authenticateFail(r, (Rejected("Failed to extract authorization code from callback", 0, FALSE)))
    ELSE IF ~Held(a.tok)
    THEN authenticateFail(r, (Rejected("Failed to extract id_token from callback", 0, FALSE)))
    ELSE [r EXCEPT !.pc = "oidc", !.timer = TRUE, !.idToken = a.tok,
                   !.oidc = completeOidcFlowRequest(r)]

\* Mutant: a payload without exp leaves the invalid Date in place.
DecodeExpiryInvalid(tok, t) ==
    IF tok.pk = "exp" THEN DateOf(tok.exp * 1000)
    ELSE IF tok.pk = "noexp" THEN [k |-> "invalid", t |-> 0]
    ELSE DateOf(t + DefaultLifetimeMs)

\* Mutant: the exp claim taken as milliseconds.
DecodeExpirySeconds(tok, t) ==
    IF tok.pk = "exp" THEN DateOf(tok.exp)
    ELSE DateOf(t + DefaultLifetimeMs)

\* completeOidcFlow: "Parse id_token to get expiry".  A payload without exp
\* gives new Date(NaN), whose toISOString() throws inside the try, so the
\* catch stores the default as for an undecodable payload.
DecodeExpiry(tok, t) ==
    IF tok.pk = "exp" THEN DateOf(tok.exp * 1000)
    ELSE DateOf(t + DefaultLifetimeMs)

\* Mutant: the session is stored whatever the status of the answer.
OidcOkAnyStatus(a) == a.k = "resp"

\* completeOidcFlow after its fetch: does the handshake succeed?
OidcOk(a) == a.k = "resp" /\ a.status = 302

\* Mutant: the app cookies are not carried over.
StoredCookiesNewOnly(r, a) == CookieString(parseCookies(a.cookies))

\* What completeOidcFlow stores in this.sessionCookies.
StoredCookies(r, a) == CookieString(mergeCookies(r.appCookies, a.cookies))

\* The caller record after the completion answer: the handshake's locals go
\* out of scope; on success authenticate() resolves, with it the
\* ensureAuthenticated() that awaited it, and the frame resumes on the
\* session just stored.
completeOidcFlow(r, a, t) ==
    IF a.k \in {"throw", "abort"} THEN authenticateFail(r, (FetchError(a)))
    ELSE IF a.status # 302
    THEN authenticateFail(r, (Rejected("OIDC completion failed with status", a.status, TRUE)))
    ELSE Proceed([r EXCEPT !.timer = FALSE, !.nHsOk = @ + 1, !.inTry = FALSE,
                           !.appCookies = <<>>, !.idpCookies = <<>>, !.returnUrl = FALSE,
                           !.state = NoState, !.oidc = NoRequest, !.boot = NoBoot,
                           !.idToken = NoToken,
                           !.retFar = Far(DecodeExpiry(r.idToken, t), t)],
                 r.idToken, StoredCookies(r, a))

\* An answer of the handshake that a server accepting the login gives.
HonestLogin(pc, a) ==
    CASE pc = "boot" -> a.k = "redirect"
      [] pc = "login" -> a.k = "page" /\ a.csrf /\ a.returnUrl /\ a.cookies # <<>>
      [] pc = "cred" -> a.k = "resp" /\ a.status = 302
      [] pc = "cb" -> a.k = "page" /\ a.code /\ Held(a.tok)
      [] pc = "oidc" -> OidcOk(a) /\ a.cookies = <<SetCookie("sid", 0)>>

\* The server may give answer a to the handshake request of caller record r.
MayAnswerLogin(r, a) ==
    /\ Deliverable(r, a)
    /\ r.honest => HonestLogin(r.pc, a)
    /\ solo \/ CASE r.pc = "boot" -> BootCore(a)
                  [] r.pc = "login" -> LoginCore(a)
                  [] r.pc = "cred" -> CredCore(a)
                  [] r.pc = "cb" -> CallbackCore(a)
                  [] r.pc = "oidc" -> OidcCore(a)

SessionUnchanged == UNCHANGED <<accessToken, refreshToken, tokenExpiresAt, sessionCookies>>
FormUnchanged == UNCHANGED <<setting, formData, saves>>
ReadingsUnchanged ==
    UNCHANGED <<monitoringData, settingsData, monitoring, settings, combined, fetched,
                readingsPromise>>
JarUnchanged ==
    UNCHANGED <<existingSetCookies, existingCookies, newSetCookies, mergedCookies, merges>>
PlatformUnchanged ==
    UNCHANGED <<config, launched, apiClient, pollingTimer, currentSeasonMode, On,
                StatusFault, tasks, reverts, events, thrown>>
EnvUnchanged ==
    FormUnchanged /\ ReadingsUnchanged /\ JarUnchanged /\ PlatformUnchanged /\ UNCHANGED <<now, calls, solo, overlapW>>

Boot(p) ==
    /\ proc[p].pc = "boot"
    /\ \E a \in BootAnswers :
        /\ MayAnswerLogin(proc[p], a)
        /\ a.k = "redirect" => a.state = StateOf(p)
        /\ proc' = [proc EXCEPT ![p] = getLoginPageBoot(proc[p], a)]
    /\ SessionUnchanged /\ EnvUnchanged

Login(p) ==
    /\ proc[p].pc = "login"
    /\ \E a \in LoginAnswers :
        /\ MayAnswerLogin(proc[p], a)
        /\ proc' = [proc EXCEPT ![p] = getLoginPage(proc[p], a)]
    /\ SessionUnchanged /\ EnvUnchanged

Cred(p) ==
    /\ proc[p].pc = "cred"
    /\ \E a \in CredAnswers :
        /\ MayAnswerLogin(proc[p], a)
        /\ proc' = [proc EXCEPT ![p] = submitLogin(proc[p], a)]
    /\ SessionUnchanged /\ EnvUnchanged

Callback(p) ==
    /\ proc[p].pc = "cb"
    /\ \E a \in CallbackAnswers(now) :
        /\ MayAnswerLogin(proc[p], a)
        /\ proc' = [proc EXCEPT ![p] = getAuthorizationCode(proc[p], a)]
    /\ SessionUnchanged /\ EnvUnchanged

Oidc(p) ==
    /\ proc[p].pc = "oidc"
    /\ \E a \in OidcAnswers :
        /\ MayAnswerLogin(proc[p], a)
        /\ proc' = [proc EXCEPT ![p] = completeOidcFlow(proc[p], a, now)]
        /\ IF OidcOk(a)
           THEN /\ sessionCookies' = StoredCookies(proc[p], a)
                /\ accessToken' = proc[p].idToken
                /\ tokenExpiresAt' = DecodeExpiry(proc[p].idToken, now)
                /\ UNCHANGED refreshToken
           ELSE SessionUnchanged
    /\ EnvUnchanged

\* ------------------------------------------------------------ reads and writes
\* What the server may answer to a data GET, to the configurations-page GET
\* and to the settings-save POST.  "login" is a redirect to the login page: on
\* a followed GET a response with redirected = true whose url contains
\* 'login', on a manual-redirect request a 302 whose Location contains 'login'.
\* "badjson" is a success response whose body response.json() rejects.
DataAnswers ==
    {[k |-> "throw", status |-> 0], [k |-> "abort", status |-> 0],
     [k |-> "resp", status |-> 401], [k |-> "resp", status |-> 403],
     [k |-> "login", status |-> 200], [k |-> "resp", status |-> 500],
     [k |-> "resp", status |-> 200], [k |-> "badjson", status |-> 200]}

CsrfAnswers ==
    {[k |-> "throw", status |-> 0, token |-> FALSE], [k |-> "abort", status |-> 0, token |-> FALSE],
     [k |-> "login", status |-> 302, token |-> FALSE], [k |-> "resp", status |-> 302, token |-> FALSE],
     [k |-> "resp", status |-> 401, token |-> FALSE], [k |-> "resp", status |-> 403, token |-> FALSE],
     [k |-> "resp", status |-> 500, token |-> FALSE],
     [k |-> "resp", status |-> 200, token |-> FALSE], [k |-> "resp", status |-> 200, token |-> TRUE]}

PostAnswers ==
    {[k |-> "throw", status |-> 0], [k |-> "abort", status |-> 0],
     [k |-> "login", status |-> 302], [k |-> "resp", status |-> 302],
     [k |-> "resp", status |-> 401], [k |-> "resp", status |-> 403],
     [k |-> "resp", status |-> 500], [k |-> "resp", status |-> 301],
     [k |-> "resp", status |-> 200]}

\* response.ok
Ok2xx(status) == status >= 200 /\ status <= 299

\* The response is one of the auth-failure signals the client looks for.
IsAuthFailure(a) == a.k = "login" \/ (a.k = "resp" /\ a.status \in {401, 403})

\* A server that rejects exactly the stale credentials: a credential issued
\* by a handshake of this operation is accepted, an older one is accepted or
\* rejected as an auth failure.
HonestData(r, a) == (a.k = "resp" /\ a.status = 200) \/ (r.nHsOk = 0 /\ IsAuthFailure(a))
HonestCsrf(r, a) == (a.k = "resp" /\ a.status = 200 /\ a.token) \/ (r.nHsOk = 0 /\ IsAuthFailure(a))
HonestPost(r, a) == (a.k = "resp" /\ a.status \in {200, 302}) \/ (r.nHsOk = 0 /\ IsAuthFailure(a))

\* Mutant: the token is not cleared.
ClearedTokenKept == accessToken

\* What a detected auth failure leaves in this.accessToken and
\* this.sessionCookies before the retry ("Force re-auth").
ClearedToken == NoToken
\* Mutant: the cookie jar survives the auth failure of a write.
ClearedCookiesKept == sessionCookies
ClearedCookies == NoCookies

\* The retry of a frame: the function calls itself (or, for postSetting,
\* fetchCsrfToken) and runs up to the await of ensureAuthenticated().
RetryCall(r, tok, exp, rt, cookies, t) ==
    LET r2 == ensureAuthenticated([r EXCEPT !.fails = @ + 1], tok, exp, rt, cookies, t)
    IN  [r2 EXCEPT !.reauth = @ + (IF r2.pc = "boot" THEN 1 ELSE 0)]

\* Mutant: the retry is allowed to retry again.
fetchFromEndpointRetryFlagKept == TRUE

\* The retryOnAuth flag fetchFromEndpoint passes to its retry.
fetchFromEndpointRetryFlag == FALSE

\* Mutant: every failed data GET is retried once.
fetchFromEndpointRetryAll(r, a, tok, exp, rt, cookies, t) ==
    IF a.k = "resp" /\ Ok2xx(a.status) THEN Settle(r, Resolved)
    ELSE IF r.retry
    THEN RetryCall([r EXCEPT !.retry = FALSE, !.mfails = @ + 1], tok, exp, rt, cookies, t)
    ELSE Settle([r EXCEPT !.fails = @ + 1, !.mfails = @ + 1],
                Rejected("Authentication failed - check your credentials", a.status, TRUE))

\* fetchFromEndpoint after its fetch.  tok, exp, rt are the session fields
\* the retry's ensureAuthenticated() sees (the token already cleared).
fetchFromEndpoint(r, a, tok, exp, rt, cookies, t) ==
    IF a.k \in {"throw", "abort", "badjson"}
    THEN Settle(r, IF a.k = "abort" THEN Rejected("Request timed out", 0, FALSE)
                   ELSE Rejected("Network error", 0, FALSE))
    ELSE IF a.k = "resp" /\ a.status \in {401, 403}
    THEN IF r.retry
         THEN RetryCall([r EXCEPT !.retry = fetchFromEndpointRetryFlag, !.mfails = @ + 1],
                        tok, exp, rt, cookies, t)
         ELSE Settle([r EXCEPT !.fails = @ + 1, !.mfails = @ + 1],
                     Rejected("Authentication failed - check your credentials", a.status, TRUE))
    ELSE IF a.k = "login"
    THEN IF r.retry
         THEN RetryCall([r EXCEPT !.retry = fetchFromEndpointRetryFlag, !.mfails = @ + 1],
                        tok, exp, rt, cookies, t)
         ELSE Settle([r EXCEPT !.fails = @ + 1, !.mfails = @ + 1],
                     Rejected("Session expired - authentication failed", 302, TRUE))
    ELSE IF ~Ok2xx(a.status)
    THEN Settle(r, Rejected("API request failed with status", a.status, FALSE))
    ELSE Settle(r, Resolved)

\* fetchCsrfToken after its fetch.
fetchCsrfToken(r, a, tok, exp, rt, cookies, t) ==
    IF a.k \in {"throw", "abort"}
    THEN Settle(r, Rejected("Failed to fetch CSRF token", 0, FALSE))
    ELSE IF IsAuthFailure(a)
    THEN IF r.retry
         THEN RetryCall([r EXCEPT !.retry = FALSE], tok, exp, rt, cookies, t)
         ELSE Settle([r EXCEPT !.fails = @ + 1],
                     Rejected("Authentication failed during CSRF fetch", a.status, TRUE))
    ELSE IF ~Ok2xx(a.status)
    THEN Settle(r, Rejected("Failed to fetch configurations page", a.status, FALSE))
    ELSE IF ~a.token
    THEN Settle(r, Rejected("Could not find CSRF token in configurations page", 0, FALSE))
    ELSE [r EXCEPT !.pc = "csrf_ret", !.timer = FALSE]

\* Mutant: the re-submission is allowed to retry again.
postSettingRetryFlagKept == TRUE

\* The retryOnAuth flag postSetting passes to its retry.
postSettingRetryFlag == FALSE

\* postSetting after its fetch.  On an auth failure with retry permitted it
\* calls fetchCsrfToken() (retry permitted again) and will then call itself
\* with retry forbidden.
postSetting(r, a, tok, exp, rt, cookies, t) ==
    IF a.k \in {"throw", "abort"}
    THEN Settle(r, Rejected("Failed to save setting", 0, FALSE))
    ELSE IF IsAuthFailure(a)
    THEN IF r.pretry
         THEN RetryCall([r EXCEPT !.phase = "csrf", !.retry = TRUE,
                                  !.pretry = postSettingRetryFlag,
                                  !.mfails = @ + 1, !.nCsrf = 0],
                        tok, exp, rt, cookies, t)
         ELSE Settle([r EXCEPT !.fails = @ + 1, !.mfails = @ + 1],
                     Rejected("Authentication failed during setting update", a.status, TRUE))
    ELSE IF a.status = 302 THEN Settle(r, Resolved)
    ELSE IF ~Ok2xx(a.status)
    THEN Settle(r, Rejected("Failed to save setting", a.status, FALSE))
    ELSE Settle(r, Resolved)

\* What the token endpoint may answer to the refresh-token POST.  "badjson"
\* is a success response whose body response.json() rejects.
RefreshAnswers ==
    {[k |-> "throw", status |-> 0, access_token |-> NoToken, refresh_token |-> NoToken,
      expires_in |-> 0],
     [k |-> "abort", status |-> 0, access_token |-> NoToken, refresh_token |-> NoToken,
      expires_in |-> 0],
     [k |-> "badjson", status |-> 200, access_token |-> NoToken, refresh_token |-> NoToken,
      expires_in |-> 0],
     [k |-> "resp", status |-> 400, access_token |-> NoToken, refresh_token |-> NoToken,
      expires_in |-> 0],
     [k |-> "resp", status |-> 200, access_token |-> IdToken("bad", 1),
      refresh_token |-> IdToken("bad", 0), expires_in |-> 90]}

\* The refresh succeeded: a success response with a well-formed body.
RefreshOk(a) == a.k = "resp" /\ Ok2xx(a.status)

\* refreshTokens() after its fetch.  A non-success response calls
\* authenticate() inside the try block; a rejected fetch, an abort or a body
\* that does not parse is caught and authenticate() is called from the catch.
refreshTokensAnswer(r, a, cookies, t) ==
    IF a.k \in {"throw", "abort", "badjson"}
    THEN authenticate([r EXCEPT !.inTry = FALSE, !.nRfAuth = @ + 1])
    ELSE IF ~Ok2xx(a.status)
    THEN authenticate([r EXCEPT !.inTry = TRUE, !.nRfAuth = @ + 1])
    ELSE Proceed([r EXCEPT !.timer = FALSE,
                           !.retFar = Far(DateOf(t + a.expires_in * 1000), t)],
                 a.access_token, cookies)

Refresh(p) ==
    /\ proc[p].pc = "refresh"
    /\ \E a \in RefreshAnswers :
        /\ Deliverable(proc[p], a)
        /\ proc[p].honest => a.k = "resp"
        /\ proc' = [proc EXCEPT ![p] = refreshTokensAnswer(proc[p], a, sessionCookies, now)]
        /\ IF RefreshOk(a)
           THEN /\ accessToken' = a.access_token
                /\ refreshToken' = a.refresh_token
                /\ tokenExpiresAt' = DateOf(now + a.expires_in * 1000)
           ELSE UNCHANGED <<accessToken, refreshToken, tokenExpiresAt>>
    /\ UNCHANGED sessionCookies /\ EnvUnchanged

\* A caller may issue an operation.
MayStart(p) ==
    /\ proc[p].pc = "idle"
    /\ calls < MaxCalls
    /\ \A q \in Procs : Before(q, p) => proc[q].pc # "idle"
    /\ solo => \A q \in Procs : proc[q].pc = "idle"

\* The frame of a public operation; h: the server will answer it honestly
\* (considered only for an operation that runs alone).
Begin(op, phase, h) ==
    [Idle EXCEPT !.op = op, !.phase = phase, !.retry = TRUE, !.pretry = TRUE, !.honest = h]
Honesty == IF solo THEN BOOLEAN ELSE {FALSE}

\* The public authenticate().
StartAuthenticate(p) ==
    /\ MayStart(p)
    /\ \E h \in Honesty : proc' = [proc EXCEPT ![p] = authenticate(Begin("auth", "auth", h))]
    /\ calls' = calls + 1
    /\ SessionUnchanged /\ UNCHANGED <<now, solo, overlapW>> /\ FormUnchanged /\ ReadingsUnchanged /\ JarUnchanged /\ PlatformUnchanged

\* fetchMonitoring() / fetchSettings(): fetchFromEndpoint(url, name, true).
StartRead(p) ==
    /\ MayStart(p)
    /\ \E h \in Honesty : proc' = [proc EXCEPT ![p] =
           ensureAuthenticated(Begin("read", "read", h), accessToken, tokenExpiresAt,
                               refreshToken, sessionCookies, now)]
    /\ calls' = calls + 1
    /\ SessionUnchanged /\ UNCHANGED <<now, solo, overlapW>> /\ FormUnchanged /\ ReadingsUnchanged /\ JarUnchanged /\ PlatformUnchanged

\* A setter: fetchCsrfToken(true), later postSetting(field, value, token, true).
StartWrite(p) ==
    /\ MayStart(p)
    /\ \E h \in Honesty : proc' = [proc EXCEPT ![p] =
           ensureAuthenticated(Begin("write", "csrf", h), accessToken, tokenExpiresAt,
                               refreshToken, sessionCookies, now)]
    /\ calls' = calls + 1
    /\ overlapW' = (overlapW \/ \E q \in Procs \ {p} : InFlight(q) /\ proc[q].op = "write")
    /\ SessionUnchanged /\ UNCHANGED <<now, solo>> /\ FormUnchanged /\ ReadingsUnchanged /\ JarUnchanged /\ PlatformUnchanged

Data(p) ==
    /\ proc[p].pc = "data"
    /\ \E a \in DataAnswers :
        /\ Deliverable(proc[p], a)
        /\ proc[p].honest => HonestData(proc[p], a)
        /\ solo \/ DataCore(a)
        /\ LET clear == IsAuthFailure(a) /\ proc[p].retry
               tok == IF clear THEN ClearedToken ELSE accessToken
           IN  /\ accessToken' = tok
               /\ proc' = [proc EXCEPT ![p] =
                      fetchFromEndpoint(proc[p], a, tok, tokenExpiresAt, refreshToken,
                                        sessionCookies, now)]
    /\ UNCHANGED <<refreshToken, tokenExpiresAt, sessionCookies>> /\ EnvUnchanged

Csrf(p) ==
    /\ proc[p].pc = "csrf"
    /\ \E a \in CsrfAnswers :
        /\ Deliverable(proc[p], a)
        /\ proc[p].honest => HonestCsrf(proc[p], a)
        /\ solo \/ CsrfCore(a)
        /\ LET clear == IsAuthFailure(a) /\ proc[p].retry
               tok == IF clear THEN ClearedToken ELSE accessToken
           IN  /\ accessToken' = tok
               /\ sessionCookies' = IF clear THEN ClearedCookies ELSE sessionCookies
               /\ proc' = [proc EXCEPT ![p] =
                      fetchCsrfToken(proc[p], a, tok, tokenExpiresAt, refreshToken,
                                     sessionCookies', now)]
    /\ UNCHANGED <<refreshToken, tokenExpiresAt>> /\ EnvUnchanged

\* The setter (or postSetting's retry) resumes with the CSRF token and calls
\* postSetting, which runs up to its await of ensureAuthenticated().
CallPost(p) ==
    /\ proc[p].pc = "csrf_ret"
    /\ proc' = [proc EXCEPT ![p] =
           ensureAuthenticated([proc[p] EXCEPT !.phase = "post", !.timer = FALSE],
                               accessToken, tokenExpiresAt, refreshToken, sessionCookies, now)]
    /\ SessionUnchanged /\ EnvUnchanged

Post(p) ==
    /\ proc[p].pc = "post"
    /\ \E a \in PostAnswers :
        /\ Deliverable(proc[p], a)
        /\ proc[p].honest => HonestPost(proc[p], a)
        /\ solo \/ PostCore(a)
        /\ LET clear == IsAuthFailure(a) /\ proc[p].pretry
               tok == IF clear THEN ClearedToken ELSE accessToken
           IN  /\ accessToken' = tok
               /\ sessionCookies' = IF clear THEN ClearedCookies ELSE sessionCookies
               /\ proc' = [proc EXCEPT ![p] =
                      postSetting(proc[p], a, tok, tokenExpiresAt, refreshToken,
                                  sessionCookies', now)]
    /\ UNCHANGED <<refreshToken, tokenExpiresAt>> /\ EnvUnchanged

\* The caller has observed the outcome.
Return(p) ==
    /\ proc[p].pc = "done"
    /\ proc' = [proc EXCEPT ![p] = Idle]
    /\ overlapW' = (overlapW /\ \E q \in Procs \ {p} : proc[q].pc # "idle")
    /\ SessionUnchanged /\ UNCHANGED <<now, calls, solo>> /\ FormUnchanged /\ ReadingsUnchanged /\ JarUnchanged /\ PlatformUnchanged

\* ------------------------------------------------------------ environment
Tick ==
    /\ now < MaxTicks * TickMs
    /\ now' = now + TickMs
    /\ SessionUnchanged /\ UNCHANGED <<proc, calls, solo, overlapW>> /\ FormUnchanged /\ ReadingsUnchanged /\ JarUnchanged /\ PlatformUnchanged

Next ==
    \/ \E p \in Procs : StartAuthenticate(p)
    \/ \E p \in Procs : StartRead(p)
    \/ \E p \in Procs : StartWrite(p)
    \/ \E p \in Procs : Boot(p)
    \/ \E p \in Procs : Login(p)
    \/ \E p \in Procs : Cred(p)
    \/ \E p \in Procs : Callback(p)
    \/ \E p \in Procs : Oidc(p)
    \/ \E p \in Procs : Data(p)
    \/ \E p \in Procs : Csrf(p)
    \/ \E p \in Procs : CallPost(p)
    \/ \E p \in Procs : Post(p)
    \/ \E p \in Procs : Return(p)
    \/ Tick

\* Callers may overlap their operations.
Spec == Init /\ [][Next]_vars

\* Callers issue one operation at a time.
InitSeq ==
    /\ accessToken = NoToken
    /\ refreshToken = NoToken
    /\ tokenExpiresAt = NoDate
    /\ sessionCookies = NoCookies
    /\ now = 0
    /\ proc = [p \in Procs |-> Idle]
    /\ calls = 0
    /\ solo = TRUE
    /\ overlapW = FALSE
    /\ setting = NoSetting /\ formData = NoForm /\ saves = 0
    /\ NoReadings
    /\ NoJar
    /\ NoPlatform

SpecSeq == InitSeq /\ [][Next]_vars

\* ------------------------------------------------------------ setters, answered
\* Setter calls, one at a time, against a server that answers every request
\* (or lets it time out): the answer to the request a caller waits for is
\* eventually delivered.
Answered(p) ==
    \/ Boot(p) \/ Login(p) \/ Cred(p) \/ Callback(p) \/ Oidc(p)
    \/ Csrf(p) \/ CallPost(p) \/ Post(p)

NextSetter ==
    \/ \E p \in Procs : StartWrite(p)
    \/ \E p \in Procs : Answered(p)
    \/ \E p \in Procs : Return(p)
    \/ Tick

SpecSetter == InitSeq /\ [][NextSetter]_vars /\ \A p \in Procs : WF_vars(Answered(p))

\* refreshTokens() with a refresh token held: a session that holds, besides
\* a bearer token about to expire and a cookie jar, a refresh token.
InitRefresh ==
    /\ accessToken = IdToken("exp", 30)
    /\ refreshToken = IdToken("bad", 0)
    /\ tokenExpiresAt = DateOf(30 * 1000)
    /\ sessionCookies = CookieString(<<[n |-> "sid", v |-> 0]>>)
    /\ now = 0
    /\ proc = [p \in Procs |-> Idle]
    /\ calls = 0
    /\ solo = TRUE
    /\ overlapW = FALSE
    /\ setting = NoSetting /\ formData = NoForm /\ saves = 0
    /\ NoReadings
    /\ NoJar
    /\ NoPlatform

NextRefresh ==
    \/ Next
    \/ \E p \in Procs : Refresh(p)

SpecRefresh == InitRefresh /\ [][NextRefresh]_vars

\* ------------------------------------------------------------ settings form
\* The catalog of the settings form, in the order postSetting appends it.
SelectFields ==
    <<"_USER_Parameters_MainSwitch_C", "_USER_Parameters_SeasonMode_C",
      "_USER_HeatSPCtrl_Type_C", "_USER_HeatSPCtrl_Curve_C",
      "_USER_HotWater_Source_C", "_USER_Heating_Source_C",
      "_USER_Heating_CtrlMode_C">>
TextFields ==
    <<"_USER_HeatSPCtrl_ToffSet_T", "_USER_HotWater_SetPoint_T",
      "_USER_Heating_SetPointMin_T", "_USER_HeatSPCtrl_TroomSet_T">>
TimeFields ==
    <<"_USER_Time_Year_T", "_USER_Time_Month_T", "_USER_Time_Day_T",
      "_USER_Time_Hour_T", "_USER_Time_Minute_T">>
Range(seq) == {seq[i] : i \in DOMAIN seq}

\* this.deviceId
deviceId == "device-1"

\* Mutant: only the field being set is submitted.
postSettingFormPartial(fieldName, value, csrfToken) ==
    <<<<"btnSubmit", "">>, <<"hdnDeviceId", deviceId>>, <<fieldName, value>>,
      <<"__RequestVerificationToken", csrfToken>>>>

\* The URLSearchParams postSetting builds.
postSettingForm(fieldName, value, csrfToken) ==
    <<<<"btnSubmit", "">>, <<"hdnDeviceId", deviceId>>>>
    \o [i \in DOMAIN SelectFields |->
           <<SelectFields[i], IF fieldName = SelectFields[i] THEN value ELSE "-1">>]
    \o [i \in DOMAIN TextFields |->
           <<TextFields[i], IF fieldName = TextFields[i] THEN value ELSE "">>]
    \o [i \in DOMAIN TimeFields |-> <<TimeFields[i], "">>]
    \o <<<<"__RequestVerificationToken", csrfToken>>>>

\* Number.prototype.toFixed(1) of the number tenths / 10.
toFixed1(tenths) ==
    LET a == IF tenths < 0 THEN -tenths ELSE tenths
    IN  (IF tenths < 0 THEN "-" ELSE "") \o ToString(a \div 10) \o "." \o ToString(a % 10)

\* Number.prototype.toString() of an integer.
numberToString(n) == ToString(n)

\* Arguments the setters are called with: temperatures in tenths of a
\* degree, mode numbers, and the CSRF token read from the page.
Temperatures == {-10, 0, 5, 225, 500}
Modes == {-1, 0, 1, 2, 7}
CsrfTokens == {"csrf-1", "csrf-2"}

\* What a setter hands to postSetting, and the form postSetting builds.
Save(fieldName, value, csrfToken) ==
    /\ setting' = [fieldName |-> fieldName, value |-> value]
    /\ formData' = postSettingForm(fieldName, value, csrfToken)
    /\ saves' = saves + 1
    /\ SessionUnchanged /\ ReadingsUnchanged /\ JarUnchanged /\ PlatformUnchanged
    /\ UNCHANGED <<now, proc, calls, solo, overlapW>>

setHotWaterSetpoint(temperature, csrfToken) ==
    /\ saves < MaxSaves
    /\ Save("_USER_HotWater_SetPoint_T", toFixed1(temperature), csrfToken)
setCurveOffset(offset, csrfToken) ==
    /\ saves < MaxSaves
    /\ Save("_USER_HeatSPCtrl_ToffSet_T", toFixed1(offset), csrfToken)
setHeatingRoomSetpoint(temperature, csrfToken) ==
    /\ saves < MaxSaves
    /\ Save("_USER_HeatSPCtrl_TroomSet_T", toFixed1(temperature), csrfToken)
setSeasonMode(mode, csrfToken) ==
    /\ saves < MaxSaves
    /\ Save("_USER_Parameters_SeasonMode_C", numberToString(mode), csrfToken)
setCompensationType(type, csrfToken) ==
    /\ saves < MaxSaves
    /\ Save("_USER_HeatSPCtrl_Type_C", numberToString(type), csrfToken)
setMinHeatingSetpoint(temperature, csrfToken) ==
    /\ saves < MaxSaves
    /\ Save("_USER_Heating_SetPointMin_T", toFixed1(temperature), csrfToken)

NextForm ==
    \/ \E t \in Temperatures, c \in CsrfTokens : setHotWaterSetpoint(t, c)
    \/ \E t \in Temperatures, c \in CsrfTokens : setCurveOffset(t, c)
    \/ \E t \in Temperatures, c \in CsrfTokens : setHeatingRoomSetpoint(t, c)
    \/ \E m \in Modes, c \in CsrfTokens : setSeasonMode(m, c)
    \/ \E m \in Modes, c \in CsrfTokens : setCompensationType(m, c)
    \/ \E t \in Temperatures, c \in CsrfTokens : setMinHeatingSetpoint(t, c)

\* The forms the setters submit, the session taken as valid.
SpecForm == InitSeq /\ [][NextForm]_vars

\* ------------------------------------------------------------ readings
\* A number: finite (in tenths), NaN or Infinity.
Num(tenths) == [kind |-> "num", tenths |-> tenths]
NaN == [kind |-> "nan", tenths |-> 0]
Infinity == [kind |-> "inf", tenths |-> 0]
isNaN(v) == v.kind = "nan"

\* parseFloat on the texts the endpoints are answered with: the number the
\* longest numeric prefix of the text denotes, NaN when there is none.
parseFloat(raw) ==
    CASE raw = "25.5" -> Num(255)
      [] raw = "21" -> Num(210)
      [] raw = "-3.0" -> Num(-30)
      [] raw = "12abc" -> Num(120)
      [] raw = "Infinity" -> Infinity
      [] raw = "2" -> Num(20)
      [] OTHER -> NaN

\* A view parameter; id "" stands for a missing id, def FALSE for a missing
\* actualValue.
Param(id, raw) == [id |-> id, def |-> TRUE, actualValue |-> raw]
ParamNoValue(id) == [id |-> id, def |-> FALSE, actualValue |-> ""]
\* A group; hasParams FALSE: viewParameters is missing or not an array.
Group(params) == [hasParams |-> TRUE, viewParameters |-> params]
GroupNoParams == [hasParams |-> FALSE, viewParameters |-> <<>>]
Body(groups) == [hasGroups |-> TRUE, groups |-> groups]

\* Map.set on a map of readings keyed by paramId, kept in insertion order.
readingsSet(readings, reading) ==
    IF \E i \in DOMAIN readings : readings[i].paramId = reading.paramId
    THEN [i \in DOMAIN readings |->
             IF readings[i].paramId = reading.paramId THEN reading ELSE readings[i]]
    ELSE Append(readings, reading)

\* parseResponse: the inner loop over the parameters of one group.
RECURSIVE parseParams(_, _)
parseParams(readings, params) ==
    IF params = <<>> THEN readings
    ELSE LET param == Head(params)
             value == parseFloat(param.actualValue)
         IN  parseParams(
                 IF param.id = "" \/ ~param.def THEN readings
                 ELSE IF isNaN(value) THEN readings
                 ELSE readingsSet(readings, [paramId |-> param.id, value |-> value,
                                             raw |-> param.actualValue]),
                 Tail(params))

\* parseResponse: the outer loop over the groups.
RECURSIVE parseGroups(_, _)
parseGroups(readings, groups) ==
    IF groups = <<>> THEN readings
    ELSE parseGroups(IF ~Head(groups).hasParams THEN readings
                     ELSE parseParams(readings, Head(groups).viewParameters),
                     Tail(groups))

parseResponse(data) ==
    IF ~data.hasGroups THEN <<>> ELSE parseGroups(<<>>, data.groups)

\* Mutant: the monitoring readings are laid over the settings readings.
RECURSIVE fetchReadingsMonitoringWins(_, _)
fetchReadingsMonitoringWins(m, st) ==
    IF m = <<>> THEN st
    ELSE fetchReadingsMonitoringWins(Tail(m), readingsSet(st, Head(m)))

\* fetchReadings after Promise.all: new Map(monitoring), then every settings
\* entry set into it.
RECURSIVE fetchReadings(_, _)
fetchReadings(m, st) ==
    IF st = <<>> THEN m
    ELSE fetchReadings(readingsSet(m, Head(st)), Tail(st))

\* Bodies the endpoints may answer with.
Payloads ==
    {NoData,
     Body(<<>>),
     Body(<<Group(<<Param("t1", "25.5"), Param("tog", "TOGGLE_VALUE_OFFON_1"),
                    Param("t2", "-3.0")>>)>>),
     Body(<<Group(<<Param("tog", "TOGGLE_VALUE_OFFON_1"), Param("", "21"),
                    ParamNoValue("t2")>>),
            GroupNoParams, Group(<<Param("t2", "-3.0")>>)>>),
     Body(<<Group(<<Param("t1", "25.5")>>), Group(<<Param("t1", "21")>>)>>),
     Body(<<Group(<<Param("t3", "12abc"), Param("t1", "25.5")>>)>>),
     Body(<<Group(<<Param("t4", "Infinity"), Param("t2", "-3.0")>>)>>),
     Body(<<Group(<<Param("t1", "21"), Param("t5", "21")>>)>>)}

\* fetchMonitoring() / fetchSettings() return the parsed body.
ParseMonitoring ==
    /\ "monitoring" \notin fetched
    /\ monitoring' = parseResponse(monitoringData)
    /\ fetched' = fetched \cup {"monitoring"}
    /\ UNCHANGED <<monitoringData, settingsData, settings, combined, readingsPromise>>
    /\ SessionUnchanged /\ FormUnchanged /\ JarUnchanged /\ PlatformUnchanged
    /\ UNCHANGED <<now, proc, calls, solo, overlapW>>

ParseSettings ==
    /\ "settings" \notin fetched
    /\ settings' = parseResponse(settingsData)
    /\ fetched' = fetched \cup {"settings"}
    /\ UNCHANGED <<monitoringData, settingsData, monitoring, combined, readingsPromise>>
    /\ SessionUnchanged /\ FormUnchanged /\ JarUnchanged /\ PlatformUnchanged
    /\ UNCHANGED <<now, proc, calls, solo, overlapW>>

\* Both sub-fetches have resolved: fetchReadings() merges and returns.
Combine ==
    /\ {"monitoring", "settings"} \subseteq fetched /\ "combined" \notin fetched
    /\ combined' = fetchReadings(monitoring, settings)
    /\ fetched' = fetched \cup {"combined"}
    /\ UNCHANGED <<monitoringData, settingsData, monitoring, settings, readingsPromise>>
    /\ SessionUnchanged /\ FormUnchanged /\ JarUnchanged /\ PlatformUnchanged
    /\ UNCHANGED <<now, proc, calls, solo, overlapW>>

InitReadings ==
    /\ accessToken = NoToken
    /\ refreshToken = NoToken
    /\ tokenExpiresAt = NoDate
    /\ sessionCookies = NoCookies
    /\ now = 0
    /\ proc = [p \in Procs |-> Idle]
    /\ calls = 0
    /\ solo = TRUE
    /\ overlapW = FALSE
    /\ setting = NoSetting /\ formData = NoForm /\ saves = 0
    /\ monitoringData \in Payloads /\ settingsData \in Payloads
    /\ monitoring = <<>> /\ settings = <<>> /\ combined = <<>> /\ fetched = {}
    /\ readingsPromise = NoPromise
    /\ NoJar
    /\ NoPlatform

NextReadings == ParseMonitoring \/ ParseSettings \/ Combine

\* What fetchReadings() returns for the bodies of the two endpoints, both
\* requests taken as answered with success.
SpecReadings == InitReadings /\ [][NextReadings]_vars

\* ------------------------------------------------------------ fetchReadings()
\* fetchReadings() awaits Promise.all([fetchMonitoring(), fetchSettings()]).
\* The two sub-fetches are the reads of the two callers; both are started in
\* the turn of the call, fetchMonitoring() first.

\* Mutant: every sub-fetch is waited for and the maps of those that
\* succeeded are delivered.
PromiseAllSettled(promise, p, res) ==
    LET seen == promise.seen \cup {p}
        from == IF res.st = "ok" THEN promise.from \cup {p} ELSE promise.from
    IN  IF promise.st = "pending" /\ seen = Procs
        THEN [st |-> "ok", e |-> NoResult, from |-> from, seen |-> seen]
        ELSE [promise EXCEPT !.from = from, !.seen = seen]

\* Promise.all reacting to the settlement res of sub-fetch p: the first
\* rejection rejects the promise with that error; the last fulfilment
\* fulfils it, and fetchReadings() returns the two maps merged.
PromiseAll(promise, p, res) ==
    LET seen == promise.seen \cup {p}
    IN  IF promise.st # "pending" THEN [promise EXCEPT !.seen = seen]
        ELSE IF res.st # "ok"
        THEN [st |-> "err", e |-> res, from |-> {}, seen |-> seen]
        ELSE IF seen = Procs
        THEN [st |-> "ok", e |-> NoResult, from |-> Procs, seen |-> seen]
        ELSE [promise EXCEPT !.seen = seen]

\* No reaction of Promise.all is waiting in the microtask queue.
Quiet == \A p \in Procs : proc[p].pc = "done" => p \in readingsPromise.seen

\* The frames of the sub-fetches in records procs, called one after the
\* other; starting a sub-fetch changes no field of the session.
StartSubFetches(procs, i) ==
    IF i > Len(ProcSeq) THEN procs
    ELSE [procs EXCEPT ![ProcSeq[i]] =
             ensureAuthenticated(Begin("read", "read", FALSE), accessToken, tokenExpiresAt,
                                 refreshToken, sessionCookies, now)]

\* The platform calls fetchReadings(); the sub-fetches of the call before
\* have all settled.
fetchReadingsCall ==
    /\ calls < MaxCalls
    /\ \A p \in Procs : proc[p].pc \in {"idle", "done"}
    /\ Quiet
    /\ proc' = StartSubFetches(StartSubFetches(proc, 1), 2)
    /\ readingsPromise' = [NoPromise EXCEPT !.st = "pending"]
    /\ calls' = calls + 1
    /\ UNCHANGED <<monitoringData, settingsData, monitoring, settings, combined, fetched>>
    /\ SessionUnchanged /\ FormUnchanged /\ JarUnchanged /\ PlatformUnchanged
    /\ UNCHANGED <<now, solo, overlapW>>

\* The answer to the request sub-fetch p waits for arrives.
SubFetch(p) ==
    /\ Quiet
    /\ \/ Boot(p) \/ Login(p) \/ Cred(p) \/ Callback(p) \/ Oidc(p)
       \/ Refresh(p) \/ Data(p)

\* Promise.all's reaction to the settlement of sub-fetch p.
PromiseReaction(p) ==
    /\ proc[p].pc = "done" /\ p \notin readingsPromise.seen
    /\ readingsPromise.st # "none"
    /\ readingsPromise' = PromiseAll(readingsPromise, p, proc[p].res)
    /\ UNCHANGED <<monitoringData, settingsData, monitoring, settings, combined, fetched>>
    /\ SessionUnchanged /\ FormUnchanged /\ JarUnchanged /\ PlatformUnchanged
    /\ UNCHANGED <<now, proc, calls, solo, overlapW>>

InitFetch ==
    /\ accessToken = NoToken
    /\ refreshToken = NoToken
    /\ tokenExpiresAt = NoDate
    /\ sessionCookies = NoCookies
    /\ now = 0
    /\ proc = [p \in Procs |-> Idle]
    /\ calls = 0
    /\ solo = FALSE
    /\ overlapW = FALSE
    /\ setting = NoSetting /\ formData = NoForm /\ saves = 0
    /\ NoReadings
    /\ NoJar
    /\ NoPlatform

NextFetch ==
    \/ fetchReadingsCall
    \/ \E p \in Procs : SubFetch(p)
    \/ \E p \in Procs : PromiseReaction(p)
    \/ Tick

SpecFetch == InitFetch /\ [][NextFetch]_vars

\* ------------------------------------------------------------ cookie text
\* parseCookies and mergeCookies on the text of their arguments.  A string is
\* the sequence of its characters.
StartsWith(s, sep) == Len(s) >= Len(sep) /\ SubSeq(s, 1, Len(sep)) = sep

\* String.prototype.split(sep), for a non-empty separator.
RECURSIVE split(_, _)
split(s, sep) ==
    IF s = <<>> THEN << <<>> >>
    ELSE IF StartsWith(s, sep)
    THEN << <<>> >> \o split(SubSeq(s, Len(sep) + 1, Len(s)), sep)
    ELSE LET rest == split(Tail(s), sep)
         IN  << <<Head(s)>> \o rest[1] >> \o Tail(rest)

\* Array.prototype.join(sep)
RECURSIVE join(_, _)
join(parts, sep) ==
    IF parts = <<>> THEN <<>>
    ELSE IF Len(parts) = 1 THEN parts[1]
    ELSE parts[1] \o sep \o join(Tail(parts), sep)

\* setCookies.map((cookie) => cookie.split(';')[0]).join('; ')
parseCookiesText(setCookies) ==
    join([i \in DOMAIN setCookies |-> split(setCookies[i], <<";">>)[1]], <<";", " ">>)

\* Mutant: the first value set under a name is kept.
cookieMapSetFirstWins(cookieMap, name, value) ==
    IF \E i \in DOMAIN cookieMap : cookieMap[i].name = name THEN cookieMap
    ELSE Append(cookieMap, [name |-> name, value |-> value])

\* cookieMap.set(name, value) on a Map kept in insertion order.
cookieMapSet(cookieMap, name, value) ==
    IF \E i \in DOMAIN cookieMap : cookieMap[i].name = name
    THEN [i \in DOMAIN cookieMap |->
             IF cookieMap[i].name = name THEN [name |-> name, value |-> value]
             ELSE cookieMap[i]]
    ELSE Append(cookieMap, [name |-> name, value |-> value])

\* The loop body of mergeCookies over a list of "name=value" parts:
\* const [name, ...valueParts] = cookie.split('='); if (name) set.
RECURSIVE cookieMapSetAll(_, _)
cookieMapSetAll(cookieMap, cookies) ==
    IF cookies = <<>> THEN cookieMap
    ELSE LET parts == split(Head(cookies), <<"=">>)
             name == parts[1]
             value == join(Tail(parts), <<"=">>)
         IN  cookieMapSetAll(IF name = <<>> THEN cookieMap
                             ELSE cookieMapSet(cookieMap, name, value),
                             Tail(cookies))

mergeCookiesText(existing, setCookies) ==
    LET m1 == cookieMapSetAll(<<>>, split(existing, <<";", " ">>))
        m2 == cookieMapSetAll(m1, [i \in DOMAIN setCookies |->
                                      split(setCookies[i], <<";">>)[1]])
    IN  join([i \in DOMAIN m2 |-> m2[i].name \o <<"=">> \o m2[i].value], <<";", " ">>)

\* The characters of the names, values and attribute tails used below.
Chars(str) ==
    CASE str = "" -> <<>>
      [] str = "a" -> <<"a">>
      [] str = "b" -> <<"b">>
      [] str = "f" -> <<"f">>
      [] str = "1" -> <<"1">>
      [] str = "2" -> <<"2">>
      [] str = "x=y" -> <<"x", "=", "y">>
      [] str = "; P" -> <<";", " ", "P">>
      [] str = ";S" -> <<";", "S">>

\* Set-Cookie headers: name n, value v (eq FALSE: no '=' at all), attributes.
Header(n, v, eq, attrs) == [n |-> n, v |-> v, eq |-> eq, attrs |-> attrs]
HeaderText(h) ==
    Chars(h.n) \o (IF h.eq THEN <<"=">> \o Chars(h.v) ELSE <<>>) \o Chars(h.attrs)
HeaderTexts(hs) == [i \in DOMAIN hs |-> HeaderText(hs[i])]

Headers ==
    {Header("a", "1", TRUE, "; P"), Header("a", "2", TRUE, ""),
     Header("b", "x=y", TRUE, ";S"), Header("f", "", FALSE, "; P"),
     Header("", "1", TRUE, "")}
HeaderLists ==
    {<<>>} \cup {<<h>> : h \in Headers} \cup {<<h1, h2>> : h1 \in Headers, h2 \in Headers}

\* mergeCookies(existingCookies, newSetCookies); a further call merges the
\* same headers into the jar the previous call returned.
Merge ==
    /\ merges < MaxMerges
    /\ existingCookies' = IF merges = 0 THEN existingCookies ELSE mergedCookies
    /\ mergedCookies' = mergeCookiesText(existingCookies', HeaderTexts(newSetCookies))
    /\ merges' = merges + 1
    /\ UNCHANGED <<existingSetCookies, newSetCookies>>
    /\ SessionUnchanged /\ FormUnchanged /\ ReadingsUnchanged /\ PlatformUnchanged
    /\ UNCHANGED <<now, proc, calls, solo, overlapW>>

InitCookies ==
    /\ accessToken = NoToken
    /\ refreshToken = NoToken
    /\ tokenExpiresAt = NoDate
    /\ sessionCookies = NoCookies
    /\ now = 0
    /\ proc = [p \in Procs |-> Idle]
    /\ calls = 0
    /\ solo = TRUE
    /\ overlapW = FALSE
    /\ setting = NoSetting /\ formData = NoForm /\ saves = 0
    /\ NoReadings
    /\ existingSetCookies \in HeaderLists
    /\ existingCookies = parseCookiesText(HeaderTexts(existingSetCookies))
    /\ newSetCookies \in HeaderLists
    /\ mergedCookies = <<>> /\ merges = 0
    /\ NoPlatform

NextCookies == Merge

\* mergeCookies on a cookie string parseCookies produced and a list of
\* Set-Cookie headers.
SpecCookies == InitCookies /\ [][NextCookies]_vars

\* ------------------------------------------------------------ platform
\* IESHeatPumpPlatform (platform.ts) and SeasonModeSwitchAccessory.  The
\* client is the environment here: fetchReadings() resolves with the map the
\* client computes from the two bodies or rejects, a setter of the client
\* resolves or rejects.
DEFAULT_POLLING_INTERVAL == 60
MIN_POLLING_INTERVAL == 30
\* The largest delay a Node.js timer takes; any other delay is set to 1 ms.
TIMEOUT_MAX == 2147483647

Max(a, b) == IF a >= b THEN a ELSE b

\* typedConfig.pollingInterval ?? DEFAULT_POLLING_INTERVAL
OrDefault(v) == IF v.def THEN v.n ELSE DEFAULT_POLLING_INTERVAL

\* setupPlatform: Math.max(pollingInterval ?? DEFAULT, MIN).
PollingInterval(cfg) == Max(OrDefault(cfg.pollingInterval), MIN_POLLING_INTERVAL)

\* startPolling: setInterval(cb, intervalSeconds * 1000).  The timer's delay
\* is the argument when it lies in 1..TIMEOUT_MAX and 1 ms otherwise.
startPolling(intervalSeconds) ==
    [set |-> TRUE, intervalSeconds |-> intervalSeconds,
     delay |-> IF intervalSeconds >= 1 /\ intervalSeconds <= TIMEOUT_MAX \div 1000
               THEN intervalSeconds * 1000 ELSE 1]

\* The configurations the plugin may be loaded with.
PollingIntervals ==
    {Undefined} \cup {Number(n) : n \in {-5, 0, 10, 29, 30, 31, 60, 300, 2147483, 2147484}}
Configs ==
    [deviceId : BOOLEAN, cookies : BOOLEAN, pollingInterval : PollingIntervals]

\* The configurations with the default interval: complete, or with neither
\* deviceId nor cookies.
PlatformConfigs ==
    {c \in Configs : c.pollingInterval = Undefined /\ c.deviceId = c.cookies}

\* A client call awaited by the platform.
\*   kind    "poll": fetchReadings() awaited by pollApi(); "write": a client
\*           setter awaited by a platform setter
\*   origin  of a poll: "initial", "timer", "refresh" (after a write)
\*   sw      the switch whose set handler awaits that setter, -1 for none
PollTask(origin, sw) == [kind |-> "poll", origin |-> origin, sw |-> sw, prev |-> -1]
\* prev (history): the season mode the platform held when the setter was called.
WriteTask(sw, prev) == [kind |-> "write", origin |-> "none", sw |-> sw, prev |-> prev]
Remove(seq, i) == SubSeq(seq, 1, i - 1) \o SubSeq(seq, i + 1, Len(seq))

SEASON_MODE_PARAM == "_USER.Parameters.SeasonMode"
CURVE_OFFSET_PARAM == "_USER.HeatSPCtrl.ToffSet"
HEATING_ROOM_SETPOINT_PARAM == "_USER.HeatSPCtrl.TroomSet"
HOT_WATER_currentTemp == "_USER.Input.TWaterTank"

\* readings.get(paramId) is defined.
Has(readings, paramId) == \E i \in DOMAIN readings : readings[i].paramId = paramId
RawOf(readings, paramId) ==
    readings[CHOOSE i \in DOMAIN readings : readings[i].paramId = paramId].raw

\* mode.raw.match(/MODE(\d)$/): the digit, -1 for no match.
MatchMode(raw) ==
    CASE raw = "TXT_TGT_SEA_MODE0" -> 0
      [] raw = "TXT_TGT_SEA_MODE1" -> 1
      [] raw = "TXT_TGT_SEA_MODE2" -> 2
      [] OTHER -> -1

\* updateState(currentMode) on every switch.
updateState(mode) == [m \in SeasonModes |-> mode = m]

\* pollApi, the try block after fetchReadings() resolved: the season mode.
pollSeasonMode(readings, mode) ==
    IF Has(readings, SEASON_MODE_PARAM) /\ MatchMode(RawOf(readings, SEASON_MODE_PARAM)) >= 0
    THEN MatchMode(RawOf(readings, SEASON_MODE_PARAM))
    ELSE mode

\* pollApi, the try block: the accessories whose fault is cleared.
Cleared(readings) ==
    {acc \in Sensors : Has(readings, acc)}
    \cup (IF Has(readings, HOT_WATER_currentTemp) THEN {"hotWaterThermostat"} ELSE {})
    \cup (IF Has(readings, CURVE_OFFSET_PARAM) THEN {"curveOffsetAccessory"} ELSE {})
    \cup (IF Has(readings, HEATING_ROOM_SETPOINT_PARAM)
          THEN {"heatingRoomSetpointAccessory"} ELSE {})
    \cup (IF Has(readings, SEASON_MODE_PARAM) THEN {Switch(m) : m \in SeasonModes} ELSE {})

\* Mutant: only an auth failure marks the accessories.
pollApiCatchAuthOnly(fault, e) ==
    IF e.k = "IESApiError" /\ e.isAuthError
    THEN [acc \in Accessories |-> "GENERAL_FAULT"]
    ELSE fault

\* pollApi's catch: "Mark all accessories as faulted" on an IESApiError.
pollApiCatch(fault, e) ==
    IF e.k = "IESApiError" THEN [acc \in Accessories |-> "GENERAL_FAULT"]
    ELSE fault

\* The bodies the two endpoints answer a poll with.
Monitorings ==
    {NoData,
     Body(<<Group(<<Param("_USER.Input.Tamb", "21"),
                    Param("_USER.Input.TWaterTank", "25.5"),
                    Param("_USER.Output.HotTapWater", "TOGGLE_VALUE_OFFON_1")>>)>>)}
Settings ==
    {Body(<<>>),
     Body(<<Group(<<Param(CURVE_OFFSET_PARAM, "-3.0"), Param(HEATING_ROOM_SETPOINT_PARAM, "21"),
                    Param(SEASON_MODE_PARAM, "TXT_TGT_SEA_MODE0")>>)>>),
     Body(<<Group(<<Param(SEASON_MODE_PARAM, "TXT_TGT_SEA_MODE2")>>)>>),
     Body(<<Group(<<Param(SEASON_MODE_PARAM, "2")>>)>>)}

\* How fetchReadings() may end for pollApi.
PollBodies ==
    {<<m, st>> \in Monitorings \X Settings : m = NoData <=> st.groups = <<>>}
    \cup {<<NoData, Body(<<Group(<<Param(SEASON_MODE_PARAM, "TXT_TGT_SEA_MODE2")>>)>>)>>}
PollAnswers ==
    {[k |-> "readings", isAuthError |-> FALSE, monitoring |-> b[1], settings |-> b[2]] :
        b \in PollBodies}
    \cup {[k |-> "IESApiError", isAuthError |-> b, monitoring |-> NoData, settings |-> NoData] :
            b \in BOOLEAN}
    \cup {[k |-> "Error", isAuthError |-> FALSE, monitoring |-> NoData, settings |-> NoData]}

\* How a setter of the client may end for a platform setter.
WriteAnswers ==
    {[k |-> "ok", isAuthError |-> FALSE], [k |-> "IESApiError", isAuthError |-> FALSE],
     [k |-> "IESApiError", isAuthError |-> TRUE], [k |-> "Error", isAuthError |-> FALSE]}

\* Mutant: an error that is not an IESApiError is rethrown.
setterCatchRethrow(e) == e.k = "Error"

\* The catch of a platform setter: every error is logged.  TRUE: the setter
\* rejects to its caller.
setterCatch(e) == FALSE

\* The set handler of switch sw has resolved: the characteristic takes the
\* value written.
HandlerResolved(on, sw, value) ==
    IF sw \in SeasonModes THEN [on EXCEPT ![sw] = value] ELSE on

PlatformSetters ==
    {"setHotWaterSetpoint", "setCurveOffset", "setHeatingRoomSetpoint", "setSeasonMode"}

ClientUnchanged ==
    /\ SessionUnchanged /\ FormUnchanged /\ ReadingsUnchanged /\ JarUnchanged
    /\ UNCHANGED <<now, proc, calls, solo, overlapW>>

\* didFinishLaunching: setupPlatform() up to its await of the initial poll.
setupPlatform ==
    /\ ~launched
    /\ launched' = TRUE
    /\ IF config.deviceId /\ config.cookies
       THEN /\ apiClient' = TRUE
            /\ pollingTimer' = startPolling(PollingInterval(config))
            /\ tasks' = Append(tasks, PollTask("initial", -1))
       ELSE UNCHANGED <<apiClient, pollingTimer, tasks>>
    /\ UNCHANGED <<config, currentSeasonMode, On, StatusFault, reverts, events, thrown>>
    /\ ClientUnchanged

\* The interval timer fires: pollApi() up to its await.
TimerFire ==
    /\ pollingTimer.set /\ events < MaxEvents
    /\ events' = events + 1
    /\ tasks' = IF apiClient THEN Append(tasks, PollTask("timer", -1)) ELSE tasks
    /\ UNCHANGED <<config, launched, apiClient, pollingTimer, currentSeasonMode, On,
                   StatusFault, reverts, thrown>>
    /\ ClientUnchanged

\* fetchReadings() settles with a for the poll tasks[i]: the rest of
\* pollApi().  A refresh poll is the last step of its setter, which then
\* resolves, and with it the set handler that awaited it.
pollApi(i, a) ==
    /\ i \in DOMAIN tasks /\ tasks[i].kind = "poll"
    /\  LET readings == fetchReadings(parseResponse(a.monitoring), parseResponse(a.settings))
            mode == IF a.k = "readings" THEN pollSeasonMode(readings, currentSeasonMode)
                    ELSE currentSeasonMode
            on == IF a.k = "readings" /\ Has(readings, SEASON_MODE_PARAM)
                  THEN updateState(mode) ELSE On
        IN  /\ currentSeasonMode' = mode
            /\ On' = IF tasks[i].origin = "refresh" THEN HandlerResolved(on, tasks[i].sw, TRUE)
                      ELSE on
            /\ StatusFault' = IF a.k = "readings"
                              THEN [acc \in Accessories |->
                                       IF acc \in Cleared(readings) THEN "NO_FAULT"
                                       ELSE StatusFault[acc]]
                              ELSE pollApiCatch(StatusFault, a)
    /\ tasks' = Remove(tasks, i)
    /\ UNCHANGED <<config, launched, apiClient, pollingTimer, reverts, events, thrown>>
    /\ ClientUnchanged

PollDone(i) == \E a \in PollAnswers : pollApi(i, a)

\* A platform setter up to its await of the client setter; sw is the switch
\* whose set handler called it (-1: called directly).
platformSetter(setter, mode, sw) ==
    IF ~apiClient
    THEN /\ On' = HandlerResolved(On, sw, TRUE)
         /\ UNCHANGED <<currentSeasonMode, tasks>>
    ELSE /\ currentSeasonMode' = IF setter = "setSeasonMode" THEN mode ELSE currentSeasonMode
         /\ On' = IF setter = "setSeasonMode" THEN updateState(mode) ELSE On
         /\ tasks' = Append(tasks, WriteTask(sw, currentSeasonMode))

\* A platform setter is called, by the set handler of the hot water, curve
\* offset or room setpoint accessory or directly; setSeasonMode is called by
\* the set handlers of the switches (SetOn) once these exist.
SetterCall(setter) ==
    /\ launched /\ events < MaxEvents
    /\ setter = "setSeasonMode" => ~apiClient
    /\ events' = events + 1
    /\ \E mode \in SeasonModes : platformSetter(setter, mode, -1)
    /\ UNCHANGED <<config, launched, apiClient, pollingTimer, StatusFault, reverts,
                   thrown>>
    /\ ClientUnchanged

\* HomeKit writes value to the On characteristic of switch m: setOn(value).
SetOn(m, value) ==
    /\ apiClient /\ events < MaxEvents
    /\ events' = events + 1
    /\ IF value
       THEN IF currentSeasonMode # m
            THEN platformSetter("setSeasonMode", m, m) /\ UNCHANGED reverts
            ELSE /\ On' = HandlerResolved(On, m, TRUE)
                 /\ UNCHANGED <<currentSeasonMode, tasks, reverts>>
       ELSE /\ reverts' = IF currentSeasonMode = m THEN Append(reverts, m) ELSE reverts
            /\ On' = HandlerResolved(On, m, FALSE)
            /\ UNCHANGED <<currentSeasonMode, tasks>>
    /\ UNCHANGED <<config, launched, apiClient, pollingTimer, StatusFault, thrown>>
    /\ ClientUnchanged

\* The client setter settles with a for the write tasks[i]: on success the
\* refresh poll starts, on failure the catch logs and the setter resolves.
setterSettled(i, a) ==
    /\ i \in DOMAIN tasks /\ tasks[i].kind = "write"
    /\  IF a.k = "ok"
        THEN /\ tasks' = Append(Remove(tasks, i), PollTask("refresh", tasks[i].sw))
             /\ UNCHANGED <<On, thrown>>
        ELSE /\ tasks' = Remove(tasks, i)
             /\ thrown' = (thrown \/ setterCatch(a))
             /\ On' = IF setterCatch(a) THEN On ELSE HandlerResolved(On, tasks[i].sw, TRUE)
    /\ UNCHANGED <<config, launched, apiClient, pollingTimer, currentSeasonMode,
                   StatusFault, reverts, events>>
    /\ ClientUnchanged

WriteDone(i) == \E a \in WriteAnswers : setterSettled(i, a)

\* The 100 ms timer armed by setOn(false) fires.
Revert(j) ==
    /\ j \in DOMAIN reverts
    /\ On' = [On EXCEPT ![reverts[j]] = TRUE]
    /\ reverts' = Remove(reverts, j)
    /\ UNCHANGED <<config, launched, apiClient, pollingTimer, currentSeasonMode,
                   StatusFault, tasks, events, thrown>>
    /\ ClientUnchanged

InitPlatform ==
    /\ accessToken = NoToken
    /\ refreshToken = NoToken
    /\ tokenExpiresAt = NoDate
    /\ sessionCookies = NoCookies
    /\ now = 0
    /\ proc = [p \in Procs |-> Idle]
    /\ calls = 0
    /\ solo = TRUE
    /\ overlapW = FALSE
    /\ setting = NoSetting /\ formData = NoForm /\ saves = 0
    /\ NoReadings
    /\ NoJar
    /\ config \in PlatformConfigs
    /\ launched = FALSE /\ apiClient = FALSE /\ pollingTimer = NoTimer
    /\ currentSeasonMode = 1
    /\ On = [m \in SeasonModes |-> FALSE]
    /\ StatusFault = [acc \in Accessories |-> "NO_FAULT"]
    /\ tasks = <<>> /\ reverts = <<>> /\ events = 0
    /\ thrown = FALSE

NextPlatform ==
    \/ setupPlatform
    \/ TimerFire
    \/ \E i \in 1..(MaxEvents + 1) : PollDone(i)
    \/ \E setter \in PlatformSetters : SetterCall(setter)
    \/ \E m \in SeasonModes, value \in BOOLEAN : SetOn(m, value)
    \/ \E i \in 1..(MaxEvents + 1) : WriteDone(i)
    \/ \E j \in 1..MaxEvents : Revert(j)

\* The platform over a client that answers every call in every way.
SpecPlatform == InitPlatform /\ [][NextPlatform]_vars

\* The poll timer under every configuration.
InitPolling ==
    /\ accessToken = NoToken
    /\ refreshToken = NoToken
    /\ tokenExpiresAt = NoDate
    /\ sessionCookies = NoCookies
    /\ now = 0
    /\ proc = [p \in Procs |-> Idle]
    /\ calls = 0
    /\ solo = TRUE
    /\ overlapW = FALSE
    /\ setting = NoSetting /\ formData = NoForm /\ saves = 0
    /\ NoReadings
    /\ NoJar
    /\ config \in Configs
    /\ launched = FALSE /\ apiClient = FALSE /\ pollingTimer = NoTimer
    /\ currentSeasonMode = 1
    /\ On = [m \in SeasonModes |-> FALSE]
    /\ StatusFault = [acc \in Accessories |-> "NO_FAULT"]
    /\ tasks = <<>> /\ reverts = <<>> /\ events = 0
    /\ thrown = FALSE

NextPolling ==
    \/ setupPlatform
    \/ TimerFire
    \/ \E i \in 1..(MaxEvents + 1) : PollDone(i)

SpecPolling == InitPolling /\ [][NextPolling]_vars

\* ------------------------------------------------------------ claims
HandshakePcs == {"boot", "login", "cred", "cb", "oidc"}
IsRead(r) == r.op = "read"
IsWrite(r) == r.op = "write"

\* C1.  A read issued alone with retry permitted whose data GET is answered
\* with an auth failure clears the bearer token, starts exactly one
\* authenticate() handshake and, once that handshake has completed, sends the
\* data GET exactly once more (never if the handshake fails); a second auth
\* failure settles the call with an IESApiError whose isAuthError is true,
\* after two data GETs and one re-authentication.
C1_RetryOnce ==
    \A p \in Procs : IsRead(proc[p]) =>
        LET r == proc[p] IN
        /\ r.nReq <= 2 /\ r.mfails <= 2
        /\ r.mfails >= 1 => r.reauth = 1 /\ r.nEa = 2 /\ ~r.retry
        /\ (r.mfails = 1 /\ r.pc \in HandshakePcs) => (~Held(accessToken) /\ r.nReq = 1)
        /\ (r.mfails >= 1 /\ r.pc = "done") => (r.nReq = 2 <=> r.nHsOk = r.nHs)
        /\ r.mfails = 2 =>
            /\ r.pc = "done" /\ r.res.st = "err" /\ r.res.isAuthError
            /\ r.nReq = 2 /\ r.reauth = 1

\* A read that was answered 401/403 twice has settled.
C1_Witness ==
    \E p \in Procs :
        /\ IsRead(proc[p]) /\ proc[p].pc = "done" /\ proc[p].mfails = 2
        /\ proc[p].nReq = 2 /\ proc[p].reauth = 1 /\ proc[p].res.isAuthError

\* C2.  A read or a setter issued with no other operation in flight, against
\* a server that accepts a fresh login and rejects only credentials older
\* than the call, resolves, with at most one re-authentication per request
\* that was answered with an auth failure.
C2_Claim ==
    \A p \in Procs :
        (proc[p].op \in {"read", "write"} /\ proc[p].honest /\ proc[p].pc = "done") =>
            (proc[p].res.st = "ok" /\ proc[p].reauth <= proc[p].fails)

\* The response to the settings POST falls in the success class.
PostSuccess(a) == a.k = "resp" /\ (Ok2xx(a.status) \/ a.status = 302)

\* C3.  In a setter issued alone, whatever the server answers to the settings
\* POST: a 2xx or a 302 not to the login page resolves the call; a 401/403 or
\* a 302 to the login page with retry permitted makes one fetchCsrfToken()
\* call (one configurations-page GET, two when that GET is itself answered
\* with an auth failure) and, when that call yields a token, one
\* re-submission, on which an auth failure is a terminal IESApiError with
\* isAuthError true; any other status is a terminal IESApiError without
\* retry.  At most two POSTs are sent.
C3_PostClassification ==
    \A p \in Procs : IsWrite(proc[p]) =>
        LET r == proc[p] IN
        /\ r.nReq <= 2 /\ r.mfails <= 2 /\ r.nCsrf <= 2
        /\ r.pc = "post" => \A a \in PostAnswers :
            LET n == postSetting(r, a, IF IsAuthFailure(a) /\ r.pretry THEN ClearedToken
                                       ELSE accessToken,
                                 tokenExpiresAt, refreshToken,
                                 IF IsAuthFailure(a) /\ r.pretry THEN ClearedCookies
                                 ELSE sessionCookies, now)
            IN  /\ PostSuccess(a) => (n.pc = "done" /\ n.res = Resolved)
                /\ (IsAuthFailure(a) /\ r.pretry) =>
                       (n.pc = "boot" /\ n.phase = "csrf" /\ n.retry /\ ~n.pretry
                        /\ n.nReq = r.nReq /\ n.nCsrf = 0)
                /\ (IsAuthFailure(a) /\ ~r.pretry) =>
                       (n.pc = "done" /\ n.res.st = "err" /\ n.res.isAuthError)
                /\ (a.k = "resp" /\ ~PostSuccess(a) /\ ~IsAuthFailure(a)) =>
                       (n.pc = "done" /\ n.res.st = "err" /\ ~n.res.isAuthError
                        /\ n.res.statusCode = a.status)
        /\ r.mfails >= 1 => ~r.pretry
        /\ (~r.pretry /\ r.pc = "post") => (r.nReq = 2 /\ r.nCsrf >= 1)
        /\ (~r.pretry /\ r.pc = "done" /\ r.nReq = 1) => r.res.st = "err"
        /\ r.mfails = 2 =>
            /\ r.pc = "done" /\ r.res.st = "err" /\ r.res.isAuthError /\ r.nReq = 2

\* A setter whose POST and whose re-submission were both answered with an
\* auth failure has settled.
C3_Witness ==
    \E p \in Procs :
        /\ IsWrite(proc[p]) /\ proc[p].pc = "done" /\ proc[p].mfails = 2
        /\ proc[p].nReq = 2 /\ proc[p].res.isAuthError

\* Caller p makes a step in which it calls ensureAuthenticated().
EaStep(p) == proc'[p].nEa = proc[p].nEa + 1

\* C4.  Whenever ensureAuthenticated() is called while the stored
\* expiry is more than 60 seconds after the current time, it returns without
\* issuing a request.
C4_Claim ==
    [][\A p \in Procs :
          (EaStep(p) /\ Far(tokenExpiresAt, now)) => proc'[p].nHs = proc[p].nHs]_vars

\* C4, amended.  Whenever ensureAuthenticated() is called while a bearer
\* token is held and the stored expiry is more than 60 seconds after the
\* current time, it returns without issuing a request.  (accessToken' is the
\* token the call sees: a retry clears it in the same step.)
C4_Amended ==
    [][\A p \in Procs :
          (EaStep(p) /\ Held(accessToken') /\ Far(tokenExpiresAt, now)) =>
              (proc'[p].nHs = proc[p].nHs /\ proc'[p].pc \notin HandshakePcs)]_vars

\* ensureAuthenticated() returned on its fast path and the caller's own
\* request is in flight.
C4_Witness ==
    \E p \in Procs :
        /\ proc[p].pc \in {"data", "csrf"} /\ proc[p].nEa = 1 /\ proc[p].nHs = 0
        /\ proc[p].retFar /\ Held(accessToken) /\ Far(tokenExpiresAt, now)

\* C5.  Every read data GET in flight was sent after an
\* ensureAuthenticated() that returned with the stored expiry more than 60
\* seconds ahead.
C5_Claim ==
    \A p \in Procs : proc[p].pc = "data" => proc[p].retFar

\* C5, amended.  Every read data GET sent after an ensureAuthenticated()
\* that returned without running a handshake was sent with the stored expiry
\* more than 60 seconds ahead at that return.
C5_Amended ==
    \A p \in Procs :
        (IsRead(proc[p]) /\ proc[p].pc = "data" /\ proc[p].nHs = 0) => proc[p].retFar

\* A data GET sent on the fast path is in flight.
C5_Witness ==
    \E p \in Procs :
        IsRead(proc[p]) /\ proc[p].pc = "data" /\ proc[p].nHs = 0 /\ proc[p].retFar

\* Messages of the terminal errors raised for an auth failure detected on a
\* data GET, a configurations-page GET or a settings POST.
TerminalAuthMessages ==
    {"Authentication failed - check your credentials",
     "Session expired - authentication failed",
     "Authentication failed during CSRF fetch",
     "Authentication failed during setting update"}

\* C6.  When an operation has returned the terminal error of an attempt
\* that detected an auth failure, the bearer token is cleared.
C6_Claim ==
    \A p \in Procs :
        (proc[p].pc = "done" /\ proc[p].res.msg \in TerminalAuthMessages) =>
            ~Held(accessToken)

\* The frame of caller record r may retry on an auth failure.
RetryPermitted(r) == IF r.phase = "post" THEN r.pretry ELSE r.retry

\* C6, amended.  In every step in which an attempt detects an auth failure:
\* with retry permitted the bearer token is cleared and the retry starts a
\* full authenticate(); with the retry flag false the operation ends with an
\* error flagged isAuthError and the bearer token is left as it was.
C6_Amended ==
    [][\A p \in Procs : proc'[p].fails = proc[p].fails + 1 =>
          IF RetryPermitted(proc[p])
          THEN ~Held(accessToken') /\ proc'[p].pc = "boot"
          ELSE /\ proc'[p].pc = "done" /\ proc'[p].res.isAuthError
               /\ proc'[p].res.msg \in TerminalAuthMessages
               /\ accessToken' = accessToken]_vars

\* An operation has ended on its second auth failure and the token it was
\* refused with is still held.
C6_Witness ==
    \E p \in Procs :
        /\ proc[p].pc = "done" /\ proc[p].fails = 2
        /\ proc[p].res.msg \in TerminalAuthMessages /\ Held(accessToken)

CatalogFields == Range(SelectFields) \cup Range(TextFields) \cup Range(TimeFields)
Sentinel(f) == IF f \in Range(SelectFields) THEN "-1" ELSE ""
Count(form, f) == Cardinality({i \in DOMAIN form : form[i][1] = f})
ValueOf(form, f) == form[CHOOSE i \in DOMAIN form : form[i][1] = f][2]
Carriers(form, v) == {f \in CatalogFields : ValueOf(form, f) = v}

\* C8.  A submitted form contains every catalog field exactly once, the
\* field named by the caller carries the caller's value, every other catalog
\* field carries its sentinel, and exactly one catalog field carries the
\* caller's value.
C8_Claim ==
    saves > 0 =>
        /\ \A f \in CatalogFields : Count(formData, f) = 1
        /\ ValueOf(formData, setting.fieldName) = setting.value
        /\ \A f \in CatalogFields \ {setting.fieldName} : ValueOf(formData, f) = Sentinel(f)
        /\ Cardinality(Carriers(formData, setting.value)) = 1

\* C8, amended.  For every field name a setter passes and every value it
\* formats: the form contains every catalog field exactly once, the named
\* field carries the value and every other catalog field carries its
\* sentinel; the named field is the only one carrying the value whenever
\* the value is not itself a sentinel.  The five time fields are submitted
\* as '' even when postSetting is handed one of their names.
C8_Amended ==
    /\ saves > 0 =>
        /\ \A f \in CatalogFields : Count(formData, f) = 1
        /\ setting.fieldName \in Range(SelectFields) \cup Range(TextFields)
        /\ ValueOf(formData, setting.fieldName) = setting.value
        /\ \A f \in CatalogFields \ {setting.fieldName} : ValueOf(formData, f) = Sentinel(f)
        /\ setting.value \notin {"-1", ""} =>
               Carriers(formData, setting.value) = {setting.fieldName}
    /\ \A f \in Range(TimeFields), c \in CsrfTokens :
           ValueOf(postSettingForm(f, "2026", c), f) = ""

\* setHotWaterSetpoint(22.5) has built its form.
C8_Witness ==
    /\ saves > 0
    /\ setting = [fieldName |-> "_USER_HotWater_SetPoint_T", value |-> "22.5"]
    /\ Carriers(formData, "22.5") = {"_USER_HotWater_SetPoint_T"}

\* Messages authenticate() gives an error that is not an IESApiError: a
\* rejected fetch (network failure) and an aborted one (timeout).
NetworkFailureMessages ==
    {authenticateCatch(Thrown("fetch failed")).msg,
     authenticateCatch(Thrown("AbortError")).msg}

\* C9.  An authenticate() that failed because a handshake request was
\* rejected at the network level or timed out ends with isAuthError false.
C9_Claim ==
    \A p \in Procs :
        (proc[p].pc = "done" /\ proc[p].nHs >= 1 /\ proc[p].res.st = "err"
           /\ proc[p].res.msg \in NetworkFailureMessages) =>
            ~proc[p].res.isAuthError

\* C10.  Every handshake request in flight has an abort timeout armed.
C10_Claim ==
    \A p \in Procs : proc[p].pc \in HandshakePcs => proc[p].timer

\* C11.  Whatever login page the server returns: when the CSRF token is
\* missing, when the ReturnUrl field is missing, or when the response set no
\* cookie, authenticate() ends with an error and no credential POST is sent.
C11_Claim ==
    \A p \in Procs : proc[p].pc = "login" =>
        \A a \in LoginAnswers :
            (a.k = "page" /\ (~a.csrf \/ ~a.returnUrl \/ a.cookies = <<>>)) =>
                LET n == getLoginPage(proc[p], a)
                IN  n.pc = "done" /\ n.res.st = "err"

\* Messages of the errors authenticate() can end with.
HandshakeMessages ==
    {"Main app did not redirect to auth server",
     "Failed to extract CSRF token from login page",
     "Failed to get session cookies from login page",
     "Invalid username or password",
     "Login failed with status",
     "Failed to extract authorization code from callback",
     "Failed to extract id_token from callback",
     "OIDC completion failed with status"} \cup NetworkFailureMessages

\* C12.  Whatever the server answers to the credential POST: a 200 with the
\* invalid-credentials marker ends authenticate() with isAuthError true, any
\* other non-redirect response ends it with isAuthError false, and in both
\* cases no callback GET is sent; and a failed authenticate() has isAuthError
\* true exactly when the credentials were rejected.
C12_Claim ==
    \A p \in Procs :
        /\ proc[p].pc = "cred" =>
            \A a \in CredAnswers : a.k = "resp" =>
                LET n == submitLogin(proc[p], a)
                IN  /\ (a.status = 200 /\ a.marker) =>
                        (n.pc = "done" /\ n.res.st = "err" /\ n.res.isAuthError)
                    /\ (a.status # 302 /\ ~a.marker) =>
                        (n.pc = "done" /\ n.res.st = "err" /\ ~n.res.isAuthError)
        /\ (proc[p].pc = "done" /\ proc[p].res.msg \in HandshakeMessages) =>
            (proc[p].res.isAuthError <=> proc[p].res.msg = "Invalid username or password")

\* The names of a sequence of cookies, and the value of the last cookie
\* called n in it.
Names(cs) == {cs[i].n : i \in DOMAIN cs} \ {""}
LastValue(cs, n) ==
    cs[CHOOSE i \in DOMAIN cs : cs[i].n = n /\ \A j \in DOMAIN cs : cs[j].n = n => j <= i].v

\* The jar holds every cookie the response set, and every app cookie whose
\* name the response did not set again.
JarHolds(jar, app, set) ==
    /\ \A n \in Names(set) : \E j \in DOMAIN jar : jar[j].n = n /\ jar[j].v = LastValue(set, n)
    /\ \A n \in Names(app) \ Names(set) :
           \E j \in DOMAIN jar : jar[j].n = n /\ jar[j].v = LastValue(app, n)

\* C13.  When the completion POST of a handshake whose four earlier exchanges
\* succeeded is answered 302, whatever cookies it sets: authenticate()
\* resolves, the stored bearer token is the id_token scraped from the
\* callback page, and the stored jar holds every cookie of the completion
\* response and every bootstrap app cookie whose name was not set again.
C13_Login ==
    [][\A p \in Procs : proc[p].pc = "oidc" =>
          /\ \A a \in OidcAnswers : OidcOk(a) =>
                /\ JarHolds(StoredCookies(proc[p], a).jar, proc[p].appCookies,
                            parseCookies(a.cookies))
                /\ completeOidcFlow(proc[p], a, now).nHsOk = proc[p].nHsOk + 1
                /\ proc[p].op = "auth" => completeOidcFlow(proc[p], a, now).res = Resolved
          /\ proc'[p].nHsOk = proc[p].nHsOk + 1 =>
                /\ accessToken' = proc[p].idToken /\ Held(accessToken')
                /\ \E a \in OidcAnswers :
                      OidcOk(a) /\ sessionCookies' = StoredCookies(proc[p], a)]_vars

\* authenticate() has resolved after a bootstrap that set corr and sid and a
\* completion response that set sid again.
C13_Witness ==
    \E p \in Procs :
        /\ proc[p].op = "auth" /\ proc[p].pc = "done" /\ proc[p].res = Resolved
        /\ Held(accessToken)
        /\ sessionCookies = CookieString(<<[n |-> "corr", v |-> 0], [n |-> "sid", v |-> 0]>>)

AfterData(r, a) ==
    fetchFromEndpoint(r, a, IF IsAuthFailure(a) /\ r.retry THEN ClearedToken ELSE accessToken,
                      tokenExpiresAt, refreshToken, sessionCookies, now)
AfterCsrf(r, a) ==
    fetchCsrfToken(r, a, IF IsAuthFailure(a) /\ r.retry THEN ClearedToken ELSE accessToken,
                   tokenExpiresAt, refreshToken,
                   IF IsAuthFailure(a) /\ r.retry THEN ClearedCookies ELSE sessionCookies, now)
AfterPost(r, a) ==
    postSetting(r, a, IF IsAuthFailure(a) /\ r.pretry THEN ClearedToken ELSE accessToken,
                tokenExpiresAt, refreshToken,
                IF IsAuthFailure(a) /\ r.pretry THEN ClearedCookies ELSE sessionCookies, now)

\* The operation has not settled, or settled by resolving or with an
\* IESApiError.
Typed(n) == n.res.st \in {"none", "ok", "err"} /\ (n.pc = "done" => n.res.st # "none")

\* C16.  Every operation that settles either resolves or rejects with an
\* IESApiError, on its first attempt and on its retry; and whatever the
\* server answers to the request in flight, the operation resolves only on
\* an answer that is a success: a failed request never ends the operation as
\* resolved.
C16_TypedErrors ==
    \A p \in Procs :
        LET r == proc[p] IN
        /\ Typed(r)
        /\ r.pc = "boot" => \A a \in BootAnswers :
              Typed(getLoginPageBoot(r, a)) /\ getLoginPageBoot(r, a).res.st # "ok"
        /\ r.pc = "login" => \A a \in LoginAnswers :
              Typed(getLoginPage(r, a)) /\ getLoginPage(r, a).res.st # "ok"
        /\ r.pc = "cred" => \A a \in CredAnswers :
              Typed(submitLogin(r, a)) /\ submitLogin(r, a).res.st # "ok"
        /\ r.pc = "cb" => \A a \in CallbackAnswers(now) :
              Typed(getAuthorizationCode(r, a)) /\ getAuthorizationCode(r, a).res.st # "ok"
        /\ r.pc = "oidc" => \A a \in OidcAnswers :
              /\ Typed(completeOidcFlow(r, a, now))
              /\ completeOidcFlow(r, a, now).res.st = "ok" => (a.k = "resp" /\ a.status = 302)
        /\ r.pc = "data" => \A a \in DataAnswers :
              /\ Typed(AfterData(r, a))
              /\ AfterData(r, a).res.st = "ok" => (a.k = "resp" /\ Ok2xx(a.status))
        /\ r.pc = "csrf" => \A a \in CsrfAnswers :
              Typed(AfterCsrf(r, a)) /\ AfterCsrf(r, a).res.st # "ok"
        /\ r.pc = "post" => \A a \in PostAnswers :
              /\ Typed(AfterPost(r, a))
              /\ AfterPost(r, a).res.st = "ok" => PostSuccess(a)

\* A read has ended on a network failure inside the handshake its retry ran.
C16_Witness ==
    \E p \in Procs :
        /\ IsRead(proc[p]) /\ proc[p].pc = "done" /\ proc[p].fails = 1
        /\ proc[p].res = Rejected("Authentication failed: fetch failed", 0, TRUE)

\* The data GET is answered with a failure that is not an auth failure.
NonAuthFailure(a) ==
    \/ a.k \in {"throw", "abort", "badjson"}
    \/ a.k = "resp" /\ ~Ok2xx(a.status) /\ a.status \notin {401, 403}

\* C17.  Whatever non-auth failure (timeout, network error, unparsable body,
\* error status other than 401/403) answers a read's data GET, the read ends
\* at once with an error that is not an auth error, having sent no further
\* request and started no handshake; and the step that ends it so leaves the
\* bearer token, the expiry, the refresh token and the cookie jar unchanged.
C17_NoAutoRetry ==
    [][\A p \in Procs : (IsRead(proc[p]) /\ proc[p].pc = "data") =>
          /\ \A a \in DataAnswers : NonAuthFailure(a) =>
                LET n == AfterData(proc[p], a)
                IN  /\ n.pc = "done" /\ n.res.st = "err" /\ ~n.res.isAuthError
                    /\ n.nReq = proc[p].nReq /\ n.nHs = proc[p].nHs /\ n.nEa = proc[p].nEa
          /\ (proc'[p].pc = "done" /\ proc'[p].res.st = "err" /\ ~proc'[p].res.isAuthError) =>
                /\ accessToken' = accessToken /\ tokenExpiresAt' = tokenExpiresAt
                /\ refreshToken' = refreshToken /\ sessionCookies' = sessionCookies]_vars

\* A read made on an authenticated session has timed out after one data GET.
C17_Witness ==
    \E p \in Procs :
        /\ IsRead(proc[p]) /\ proc[p].pc = "done" /\ proc[p].nReq = 1 /\ proc[p].nHs = 0
        /\ proc[p].res = Rejected("Request timed out", 0, FALSE)
        /\ Held(accessToken) /\ ~Falsy(sessionCookies)

\* The keys of a reading map and the reading stored under a key.
Keys(m) == {m[i].paramId : i \in DOMAIN m}
Get(m, k) == m[CHOOSE i \in DOMAIN m : m[i].paramId = k]

\* C18.  The map fetchReadings() returns has one entry per key of the
\* monitoring map or the settings map; under a key of the settings map it
\* holds the settings reading, under a key of the monitoring map alone the
\* monitoring reading.
C18_Merge ==
    "combined" \in fetched =>
        /\ Keys(combined) = Keys(monitoring) \cup Keys(settings)
        /\ Cardinality(Keys(combined)) = Len(combined)
        /\ \A k \in Keys(settings) : Get(combined, k) = Get(settings, k)
        /\ \A k \in Keys(monitoring) \ Keys(settings) : Get(combined, k) = Get(monitoring, k)

\* fetchReadings() has returned for a monitoring map and a settings map that
\* disagree on t1 and each have a key of their own.
C18_Witness ==
    /\ "combined" \in fetched
    /\ Keys(monitoring) = {"t1", "t2"} /\ Keys(settings) = {"t1", "t5"}
    /\ Get(monitoring, "t1").value = Num(255) /\ Get(combined, "t1").value = Num(210)
    /\ Keys(combined) = {"t1", "t2", "t5"}

\* The text is a decimal numeral.
Numeric(raw) == raw \in {"25.5", "21", "-3.0"}
\* The parameters of a body, group by group.
RECURSIVE AllParams(_)
AllParams(groups) ==
    IF groups = <<>> THEN <<>>
    ELSE (IF Head(groups).hasParams THEN Head(groups).viewParameters ELSE <<>>)
         \o AllParams(Tail(groups))
ParamsOf(data) == IF data.hasGroups THEN AllParams(data.groups) ELSE <<>>

\* C19.  In the reading set parsed from a body, no reading comes from a
\* parameter without id or whose actualValue is missing or not numeric, and
\* every parameter with an id and a numeric actualValue has a reading with
\* that value.
C19_Claim ==
    "monitoring" \in fetched =>
        LET ps == ParamsOf(monitoringData) IN
        \A i \in DOMAIN ps :
            IF ps[i].id # "" /\ ps[i].def /\ Numeric(ps[i].actualValue)
            THEN \E j \in DOMAIN monitoring :
                    /\ monitoring[j].paramId = ps[i].id
                    /\ monitoring[j].value = parseFloat(ps[i].actualValue)
            ELSE ~\E j \in DOMAIN monitoring :
                    /\ monitoring[j].paramId = ps[i].id
                    /\ ps[i].def /\ monitoring[j].raw = ps[i].actualValue

\* The text of a jar of name/value pairs.
JarText(jar) ==
    join([i \in DOMAIN jar |-> Chars(jar[i].n) \o <<"=">> \o Chars(jar[i].v)], <<";", " ">>)

\* C20.  The text mergeCookies returns is a jar with exactly one entry per
\* (non-empty) cookie name of either argument; a name the Set-Cookie list
\* sets carries the value of its last occurrence there, every other name the
\* value it had in the existing string; and merging the same Set-Cookie list
\* into the returned jar returns the same jar.
C20_Merge ==
    /\ merges = 1 =>
        \E jar \in {mergeCookies(parseCookies(existingSetCookies), newSetCookies)} :
            /\ mergedCookies = JarText(jar)
            /\ Names(jar) = Names(existingSetCookies) \cup Names(newSetCookies)
            /\ Cardinality(Names(jar)) = Len(jar)
            /\ \A i \in DOMAIN jar :
                  jar[i].v = IF jar[i].n \in Names(newSetCookies)
                             THEN LastValue(newSetCookies, jar[i].n)
                             ELSE LastValue(existingSetCookies, jar[i].n)
    /\ merges >= 2 => mergedCookies = existingCookies

\* "a=1; b=x=y" has been merged with a header that sets a to 2, twice.
C20_Witness ==
    /\ merges = 2
    /\ existingSetCookies = <<Header("a", "1", TRUE, "; P"), Header("b", "x=y", TRUE, ";S")>>
    /\ newSetCookies = <<Header("a", "2", TRUE, "")>>
    /\ mergedCookies = <<"a", "=", "2", ";", " ", "b", "=", "x", "=", "y">>

\* The polls (pollApi awaiting fetchReadings) in flight.
PollsInFlight == {i \in DOMAIN tasks : tasks[i].kind = "poll"}

\* C21.  At most one poll cycle is in flight at any time: the interval timer,
\* the initial poll and the refresh poll after a write never start a poll
\* while an earlier one has not finished.
C21_Claim == Cardinality(PollsInFlight) <= 1

\* The switches that display On.
SwitchesOn == {m \in SeasonModes : On[m]}

\* C22.  At any time at most one of the three season-mode switches displays
\* On, under every interleaving of user switch events, mode updates and the
\* revert timer.
C22_Claim == Cardinality(SwitchesOn) <= 1

\* The text the settings body of poll answer a reports for the season mode
\* is 'TXT_TGT_SEA_MODEk'.
ReportsMode(a, k) ==
    /\ a.k = "readings"
    /\ \E j \in DOMAIN ParamsOf(a.settings) :
          /\ ParamsOf(a.settings)[j].id = SEASON_MODE_PARAM /\ ParamsOf(a.settings)[j].def
          /\ ParamsOf(a.settings)[j].actualValue = CASE k = 0 -> "TXT_TGT_SEA_MODE0"
                                   [] k = 1 -> "TXT_TGT_SEA_MODE1"
                                   [] k = 2 -> "TXT_TGT_SEA_MODE2"

\* C23.  After a successful poll in which the configuration endpoint reports
\* the season mode as 'TXT_TGT_SEA_MODEk', the platform's current season mode
\* is k and exactly the switch for mode k is On.
C23_Claim ==
    [][\A i \in 1..(MaxEvents + 1), a \in PollAnswers, k \in SeasonModes :
          pollApi(i, a) /\ ReportsMode(a, k)
              => currentSeasonMode' = k /\ SwitchesOn' = {k}]_vars

\* C24.  A poll that fails with an IESApiError, auth failure or not, marks
\* every accessory handler unavailable; a poll that fails with any other
\* error changes no accessory's fault state.
C24_Faults ==
    [][\A i \in 1..(MaxEvents + 1), a \in PollAnswers :
          pollApi(i, a)
              => /\ a.k = "IESApiError"
                     => \A acc \in Accessories : StatusFault'[acc] = "GENERAL_FAULT"
                 /\ a.k = "Error" => StatusFault' = StatusFault]_vars

\* A failed poll has marked every accessory, the three switches included.
C24_Witness ==
    /\ apiClient
    /\ \A acc \in Accessories : StatusFault[acc] = "GENERAL_FAULT"
    /\ PollsInFlight = {}

\* The refresh polls in flight.
RefreshPolls(ts) == {i \in DOMAIN ts : ts[i].kind = "poll" /\ ts[i].origin = "refresh"}

\* C25.  A platform setter never rejects to the accessory that called it;
\* with the client not initialised it makes no client call; a failed client
\* write starts no refresh poll; a client write that succeeded starts exactly
\* one refresh poll, and a refresh poll starts in no other step.
C25_Setters ==
    /\ [](~thrown /\ (~apiClient => tasks = <<>>))
    /\ [][/\ \A i \in 1..(MaxEvents + 1), a \in WriteAnswers :
                setterSettled(i, a)
                    => /\ Len(tasks') = IF a.k = "ok" THEN Len(tasks) ELSE Len(tasks) - 1
                       /\ Cardinality(RefreshPolls(tasks')) =
                              Cardinality(RefreshPolls(tasks)) + (IF a.k = "ok" THEN 1 ELSE 0)
          /\ Cardinality(RefreshPolls(tasks')) > Cardinality(RefreshPolls(tasks))
                => \E i \in DOMAIN tasks : setterSettled(i, [k |-> "ok", isAuthError |-> FALSE])
         ]_vars

\* A client write has succeeded and its refresh poll is in flight.
C25_Witness == RefreshPolls(tasks) # {} /\ ~thrown

\* C26.  For every configured pollingInterval, an absent one included, the
\* poll timer is started with max(configured value or 60, 30) seconds, so
\* that polling never runs more often than every 30 seconds.
C26_Claim ==
    pollingTimer.set =>
        /\ pollingTimer.intervalSeconds =
               Max(IF config.pollingInterval.def THEN config.pollingInterval.n ELSE 60, 30)
        /\ pollingTimer.delay >= 30 * 1000

\* The requests of one handshake, in the order authenticate() awaits them.
HandshakeOrder == <<"boot", "login", "cred", "cb", "oidc">>
HandshakeRequests == {HandshakeOrder[i] : i \in DOMAIN HandshakeOrder}
PlaceOf(pc) == CHOOSE i \in DOMAIN HandshakeOrder : HandshakeOrder[i] = pc

\* The exchange answered by a succeeded, as the specification defines each
\* step: a redirect; a page with both hidden fields that set a cookie; a 302;
\* a callback page with the code and the id_token.
ExchangeSucceeded(pc, a) ==
    CASE pc = "boot" -> a.k = "redirect"
      [] pc = "login" -> a.k = "page" /\ a.csrf /\ a.returnUrl /\ a.cookies # <<>>
      [] pc = "cred" -> a.k = "resp" /\ a.status = 302
      [] pc = "cb" -> a.k = "page" /\ a.code /\ Held(a.tok)

\* Caller record n, reached from r, is waiting for a later request of the
\* handshake r was in.
SentLater(r, n) == n.nHs = r.nHs /\ n.pc \in HandshakeRequests /\ n.pc # r.pc

\* The answer a to the request r waits for is followed by the next request
\* of the order, carrying what was extracted from a, when the exchange
\* succeeded, and by no request of this handshake when it did not.
NextRequest(r, a, n) ==
    IF ExchangeSucceeded(r.pc, a)
    THEN /\ n.nHs = r.nHs
         /\ n.pc = HandshakeOrder[PlaceOf(r.pc) + 1]
         /\ CASE r.pc = "boot" -> n.appCookies = parseCookies(a.cookies) /\ n.state = a.state
              [] r.pc = "login" -> n.idpCookies = parseCookies(a.cookies) /\ n.returnUrl
              [] r.pc = "cred" -> n.returnUrl = r.returnUrl
              [] r.pc = "cb" -> n.idToken = a.tok /\ n.oidc.state = r.state
    ELSE ~SentLater(r, n)

\* C27.  In every reachable state and for every answer the server can give
\* to the request a handshake is waiting for: the next request of the order
\* is sent, with the values extracted from the answer, exactly when the
\* exchange succeeded, and after a failed exchange no later request of the
\* handshake is sent; and in every step a handshake moves only from one
\* request to the next of the order bootstrap GET, login-page GET, credential
\* POST, callback GET, completion POST.
C27_Order ==
    /\ [](\A p \in Procs :
            /\ proc[p].pc = "boot" => \A a \in BootAnswers :
                   NextRequest(proc[p], a, getLoginPageBoot(proc[p], a))
            /\ proc[p].pc = "login" => \A a \in LoginAnswers :
                   NextRequest(proc[p], a, getLoginPage(proc[p], a))
            /\ proc[p].pc = "cred" => \A a \in CredAnswers :
                   NextRequest(proc[p], a, submitLogin(proc[p], a))
            /\ proc[p].pc = "cb" => \A a \in CallbackAnswers(now) :
                   NextRequest(proc[p], a, getAuthorizationCode(proc[p], a)))
    /\ [][\A p \in Procs :
            (proc'[p].pc \in HandshakeRequests /\ proc'[p].pc # proc[p].pc) =>
                IF proc'[p].nHs = proc[p].nHs
                THEN /\ proc[p].pc \in HandshakeRequests
                     /\ PlaceOf(proc'[p].pc) = PlaceOf(proc[p].pc) + 1
                ELSE proc'[p].pc = "boot"]_vars

\* C28.  While the completion POST of a handshake is in flight, its Cookie
\* header is the cookies of the Set-Cookie headers of that handshake's own
\* bootstrap response, its state field is the state of that response's
\* redirect, and no cookie of the identity provider is in the header; this
\* with two authenticate() calls interleaved at every await.
IdpCookieNames == {"idsrv", "auth"}
C28_Completion ==
    \A p \in Procs : proc[p].pc = "oidc" =>
        /\ proc[p].oidc.sent
        /\ proc[p].oidc.Cookie = parseCookies(proc[p].boot.cookies)
        /\ proc[p].oidc.state = proc[p].boot.state
        /\ proc[p].oidc.state = StateOf(p)
        /\ \A i \in DOMAIN proc[p].oidc.Cookie : proc[p].oidc.Cookie[i].n \notin IdpCookieNames

\* Two handshakes have their completion POSTs in flight at once, each with
\* app cookies and its own state.
C28_Witness ==
    /\ \A p \in Procs : proc[p].pc = "oidc" /\ proc[p].oidc.Cookie # <<>>
    /\ \E p, q \in Procs : proc[p].oidc.state # proc[q].oidc.state

\* The step starts the retry of caller p: the failed attempt is counted and
\* the operation goes on.
RetryStarted(p) == proc'[p].fails = proc[p].fails + 1 /\ proc'[p].pc # "done"
DataRequests == {"data", "csrf", "post"}

\* C29.  In every step in which the CSRF-page fetch or the settings POST of a
\* caller starts its retry, the bearer token and the cookie jar are both
\* cleared and the caller has started a handshake of its own and is waiting
\* for its bootstrap answer; in every step in which a read starts its retry,
\* the token is cleared and the cookie jar is unchanged; and a caller in a
\* handshake sends a data request only in the step in which that handshake
\* completes.
C29_Clears ==
    [][\A p \in Procs :
        /\ (proc[p].pc \in {"csrf", "post"} /\ RetryStarted(p)) =>
               /\ ~Held(accessToken') /\ sessionCookies' = NoCookies
               /\ proc'[p].pc = "boot" /\ proc'[p].nHs = proc[p].nHs + 1
        /\ (proc[p].pc = "data" /\ RetryStarted(p)) =>
               /\ ~Held(accessToken') /\ sessionCookies' = sessionCookies
               /\ proc'[p].pc = "boot" /\ proc'[p].nHs = proc[p].nHs + 1
        /\ (proc[p].pc \in HandshakeRequests /\ proc'[p].pc \in DataRequests) =>
               proc[p].pc = "oidc" /\ proc'[p].nHsOk = proc[p].nHsOk + 1]_vars

\* A setter's re-submission has started its handshake with token and jar
\* cleared, while a read's retry runs its own handshake.
C29_Witness ==
    \E p, q \in Procs :
        /\ proc[p].op = "write" /\ ~proc[p].pretry /\ proc[p].pc = "boot"
        /\ ~Held(accessToken) /\ sessionCookies = NoCookies
        /\ proc[q].op = "read" /\ ~proc[q].retry /\ proc[q].pc \in HandshakeRequests

\* C30.  The promise of fetchReadings() is fulfilled only when both
\* sub-fetches have resolved, and then with the maps of both; once
\* Promise.all has reacted to a sub-fetch that failed, the promise is
\* rejected; a rejected promise carries the IESApiError of a sub-fetch that
\* failed and no map, whatever the other sub-fetch returned; and no
\* sub-fetch sends its data request more than twice.
C30_AllOrNothing ==
    /\ readingsPromise.st = "ok" =>
           /\ \A p \in Procs : proc[p].pc = "done" /\ proc[p].res.st = "ok"
           /\ readingsPromise.from = Procs
    /\ (Quiet /\ readingsPromise.st # "none"
              /\ \E p \in Procs : proc[p].pc = "done" /\ proc[p].res.st # "ok") =>
           readingsPromise.st = "err"
    /\ readingsPromise.st = "err" =>
           /\ readingsPromise.e.st = "err"
           /\ readingsPromise.from = {}
           /\ \E p \in Procs : proc[p].pc = "done" /\ proc[p].res = readingsPromise.e
    /\ readingsPromise.st # "none" => \A p \in Procs : proc[p].nReq <= 2

\* fetchReadings() has failed although one sub-fetch returned its map after
\* a retry.
C30_Witness ==
    /\ readingsPromise.st = "err" /\ readingsPromise.seen = Procs
    /\ \E p \in Procs : proc[p].res.st = "ok" /\ proc[p].nReq = 2

\* The setter of caller p has sent its configurations-page GET and not yet
\* the POST that will carry the token scraped from that page.
TokenPending(p) == proc[p].op = "write" /\ proc[p].pc \in {"csrf", "csrf_ret"}

\* C31.  In every step, a setter whose CSRF token has been (or is being)
\* fetched sends its settings POST directly, without a handshake or a
\* refresh of its own in between, and the cookie jar is not written while
\* the setter goes from the configurations-page GET to the POST.
C31_SameJar ==
    [][\A p \in Procs :
        /\ (proc[p].pc = "csrf_ret" /\ proc'[p].pc # "csrf_ret") =>
               proc'[p].pc \in {"post", "done"}
        /\ (TokenPending(p) /\ proc'[p].pc \in {"csrf", "csrf_ret", "post"}) =>
               sessionCookies' = sessionCookies]_vars

\* The sub-fetches of the running fetchReadings() call that have started a
\* handshake.
SubFetchLogins == {p \in Procs : proc[p].nHs > 0}

\* C32.  During the first fetchReadings() call of a client, which holds no
\* bearer token, at most one of the two sub-fetches starts a handshake
\* before any request has been answered with an auth failure.
C32_OneLogin ==
    (calls = 1 /\ readingsPromise.st # "none" /\ \A p \in Procs : proc[p].fails = 0) =>
        Cardinality(SubFetchLogins) <= 1

\* The step completes the handshake of caller p.
HandshakeCompleted(p) == proc[p].pc = "oidc" /\ proc'[p].nHsOk = proc[p].nHsOk + 1

\* C33.  Every step of a handshake other than the one that completes it (an
\* answer that lets it go on, an answer that makes authenticate() fail, a
\* network error, a timeout) leaves the bearer token, the expiry, the
\* refresh token and the cookie jar as they were; so with one operation at a
\* time a failed authenticate() leaves them as they were before the call.
C33_FailedLeavesSession ==
    [][\A p \in Procs :
        (proc[p].pc \in HandshakePcs /\ proc'[p] # proc[p] /\ ~HandshakeCompleted(p)) =>
            UNCHANGED <<accessToken, tokenExpiresAt, refreshToken, sessionCookies>>]_vars

\* An authenticate() call has failed at its completion POST on a client that
\* held a session.
C33_Witness ==
    /\ Held(accessToken) /\ ~Falsy(sessionCookies)
    /\ \E p \in Procs : /\ proc[p].op = "auth" /\ proc[p].pc = "done"
                        /\ proc[p].res.st = "err"
                        /\ proc[p].res.msg = "OIDC completion failed with status"

\* The step stores the session of the handshake caller p completes: the
\* id_token scraped by that handshake, the expiry decoded from it and the jar
\* merged from that handshake's app cookies and completion answer.
StoresOwnSession(p) ==
    /\ HandshakeCompleted(p)
    /\ accessToken' = proc[p].idToken
    /\ tokenExpiresAt' = DecodeExpiry(proc[p].idToken, now)
    /\ \E a \in OidcAnswers :
           OidcOk(a) /\ sessionCookies' = CookieString(mergeCookies(proc[p].appCookies, a.cookies))

\* C34.  Every step either stores token, expiry and jar together, all three
\* from the handshake that completes in that step, or leaves no token held,
\* or leaves the three as they were; the client starts without a token, so in
\* every reachable state a held token, the expiry and the jar come from one
\* handshake.
C34_OneWriter ==
    [][\/ \E p \in Procs : StoresOwnSession(p)
       \/ ~Held(accessToken')
       \/ UNCHANGED <<accessToken, tokenExpiresAt, sessionCookies>>]_vars

\* A token is held while a setter that detected an auth failure, and cleared
\* token and jar, is still in its own handshake: another caller's handshake
\* has stored a session since.
C34_Witness ==
    /\ Held(accessToken) /\ tokenExpiresAt.k = "date" /\ ~Falsy(sessionCookies)
    /\ \E p, q \in Procs :
        /\ proc[q].op = "write" /\ proc[q].fails = 1 /\ proc[q].pc \in HandshakePcs
        /\ proc[p].nHsOk = 1

\* C35.  In every reachable state no refresh token is held and no caller
\* waits for the answer to a refresh-token POST: every refreshTokens() call
\* has started a handshake instead.
C35_NoRefreshToken ==
    /\ refreshToken = NoToken
    /\ \A p \in Procs : proc[p].pc # "refresh"

\* The only operation issued so far obtained a token and, at a later
\* ensureAuthenticated(), found it inside the refresh buffer: refreshTokens()
\* has started a handshake.
C35_Witness ==
    /\ calls = 1 /\ Held(accessToken) /\ NeedRefresh(tokenExpiresAt, now)
    /\ \E p \in Procs : proc[p].op = "write" /\ proc[p].pc = "boot" /\ proc[p].nHsOk = 1

\* C36.  In every reachable state in which a bearer token is held, the
\* stored cookie jar is a non-empty string, and no setter that has completed
\* a handshake is rejected with a 'No session cookies available' error.
C36_JarNotEmpty ==
    /\ Held(accessToken) => ~Falsy(sessionCookies)
    /\ \A p \in Procs :
        (proc[p].op = "write" /\ proc[p].pc = "done" /\ proc[p].nHsOk > 0) =>
            proc[p].res.msg \notin {"No session cookies available for CSRF fetch",
                                    "No session cookies available for settings update"}

\* Instants from the refresh buffer before the stored expiry onwards.
DueTimes(exp) ==
    {exp.t - TOKEN_REFRESH_BUFFER_MS, exp.t - TOKEN_REFRESH_BUFFER_MS + 1, exp.t, exp.t + TickMs}

\* C37.  In every reachable state in which a token is held, the stored
\* expiry is a valid instant, and an operation whose ensureAuthenticated()
\* runs at any time from 60 seconds before that instant onwards starts a
\* handshake; and the step that completes a handshake stores exp * 1000 ms
\* for a token with an exp claim and the time of the step plus 3600 seconds
\* for a token whose payload has no exp claim or does not decode.
C37_ValidExpiry ==
    /\ [](Held(accessToken) =>
            /\ tokenExpiresAt.k = "date"
            /\ \A t \in DueTimes(tokenExpiresAt) : \A phase \in {"read", "csrf", "post"} :
                   ensureAuthenticated(Begin("op", phase, FALSE), accessToken, tokenExpiresAt,
                                       refreshToken, sessionCookies, t).pc = "boot")
    /\ [][\A p \in Procs : HandshakeCompleted(p) =>
            tokenExpiresAt' = IF proc[p].idToken.pk = "exp"
                              THEN [k |-> "date", t |-> proc[p].idToken.exp * 1000]
                              ELSE [k |-> "date", t |-> now + 3600 * 1000]]_vars

\* A handshake has stored a token whose payload has no exp claim, with the
\* default expiry.
C37_Witness ==
    /\ accessToken = IdToken("noexp", 0)
    /\ tokenExpiresAt.k = "date" /\ tokenExpiresAt.t >= DefaultLifetimeMs

\* C38.  Every setter call settles, every request being answered; and at no
\* time has a setter sent more than two settings POSTs or more than four
\* configurations-page GETs, called ensureAuthenticated() more than six
\* times, or started more handshakes than it has called
\* ensureAuthenticated().
C38_SetterTerminates ==
    /\ [](\A p \in Procs : proc[p].op = "write" =>
            /\ proc[p].nReq <= 2 /\ proc[p].nGet <= 4
            /\ proc[p].nEa <= 6 /\ proc[p].nHs <= proc[p].nEa)
    /\ \A p \in Procs : (proc[p].op = "write" /\ InFlight(p)) ~> (proc[p].pc = "done")

\* A setter has settled after two POSTs, four configurations-page GETs and
\* six handshakes.
C38_Witness ==
    \E p \in Procs : /\ proc[p].op = "write" /\ proc[p].pc = "done"
                     /\ proc[p].nReq = 2 /\ proc[p].nGet = 4 /\ proc[p].nHs = 6

\* C39.  In every step in which the client write started by a switch's
\* setSeasonMode call fails, the platform's season mode becomes the mode held
\* before the call and the switches show that mode.
C39_Reverts ==
    [][\A i \in DOMAIN tasks : \A a \in WriteAnswers :
          (setterSettled(i, a) /\ a.k # "ok" /\ tasks[i].sw \in SeasonModes) =>
              /\ currentSeasonMode' = tasks[i].prev
              /\ On' = updateState(tasks[i].prev)]_vars

\* The parameter each accessory is updated from.
ParamOf(acc) ==
    CASE acc \in Sensors -> acc
      [] acc = "hotWaterThermostat" -> HOT_WATER_currentTemp
      [] acc = "curveOffsetAccessory" -> CURVE_OFFSET_PARAM
      [] acc = "heatingRoomSetpointAccessory" -> HEATING_ROOM_SETPOINT_PARAM
      [] OTHER -> SEASON_MODE_PARAM

\* An endpoint of poll answer a reports a value for parameter paramId.
Reports(a, paramId) ==
    /\ a.k = "readings"
    /\ \E data \in {a.monitoring, a.settings} : \E j \in DOMAIN ParamsOf(data) :
          ParamsOf(data)[j].id = paramId /\ ParamsOf(data)[j].def

\* C40.  In every poll step that succeeds, every faulted accessory whose
\* parameter an endpoint reports has its fault cleared.
C40_FaultCleared ==
    [][\A i \in 1..(MaxEvents + 1), a \in PollAnswers, acc \in Accessories :
          (pollApi(i, a) /\ StatusFault[acc] = "GENERAL_FAULT" /\ Reports(a, ParamOf(acc)))
              => StatusFault'[acc] = "NO_FAULT"]_vars
====
